---- MODULE Spec2Model ----
(***************************************************************************)
(* Upload route, background glossary processor and extraction client of    *)
(* SyncMate_Functions, as one state machine.                               *)
(*                                                                         *)
(* The process is a single-threaded event loop: an action is the code that *)
(* runs between two suspension points (the completion of one awaited I/O   *)
(* call up to the issue of the next one).                                  *)
(***************************************************************************)
EXTENDS Integers, Sequences, FiniteSets, TLC

\* ------------------------------------------------------------------ bounds
MaxRuns == 2          \* processing runs started
MaxSkips == 1         \* duplicate triggers counted
MaxRows == 2          \* rows of the row sets enumerated cell by cell
MaxLogins == 2        \* POST /sessionLogin requests served
MaxUpserts == 3       \* calls of upsertUser
MaxTerms == 3         \* terms of a list given to deduplicateTerms
MaxFairRuns == 1      \* processing runs started where runs are followed to their end
MaxDbCalls == 3       \* calls of db() or query()
MaxCloses == 1        \* calls of closeDb()
MaxSessions == 1      \* chat sessions created
MaxChatMessages == 2  \* rows of chat_messages

\* --------------------------------------------------------------- constants
MAX_RETRIES == 3
RETRY_DELAY == 1000
REQUEST_TIMEOUT == 30000
MAX_FILE_SIZE == 52428800
MAX_TEXT_LENGTH == 100000
MAX_ROWS_TO_ANALYZE == 1000
SAMPLE_VALUES_COUNT == 8
TYPE_DETECTION_SAMPLE_SIZE == 100
OneMB == 1048576

ACCEPTED_MIME ==
  { "text/csv", "application/vnd.ms-excel",
    "application/vnd.openxmlformats-officedocument.spreadsheetml.sheet",
    "application/pdf", "text/plain", "application/json" }

\* The files a client uploads: extension of the original name, declared
\* media type, size in bytes (multer lets at most MAX_FILE_SIZE through).
UploadKinds ==
  { [ext |-> ".csv", mime |-> "text/csv",        size |-> 2048],
    [ext |-> ".pdf", mime |-> "application/pdf", size |-> 2048],
    [ext |-> ".txt", mime |-> "text/plain",      size |-> 2048],
    [ext |-> ".png", mime |-> "image/png",       size |-> 2048] }

\* ------------------------------------------------------------------ values
\* An optional value is a sequence of length 0 or 1.
None == << >>
Some(x) == << x >>

\* A thrown value: isError is `e instanceof Error`; message is a tuple of parts.
Thrown(isErr, msg) == [isError |-> isErr, message |-> msg]

\* 2^n, as Math.pow(2, n) for the n >= 0 the backoff uses.
RECURSIVE Pow2(_)
Pow2(n) == IF n <= 0 THEN 1 ELSE 2 * Pow2(n - 1)

IsPrefix(s, t) == Len(s) <= Len(t) /\ \A k \in 1..Len(s) : s[k] = t[k]

\* ----------------------------------------------------- service responses
\* The texts the text-generation service may answer with.
ResponseTexts ==
  { "{\"terms\":[{\"term\":\"a\"}]}", "{\"terms\":[]}", "{}", "null",
    "{\"terms\":7}", "{\"terms\":[" }

\* JSON.parse on those texts: ok = FALSE is a SyntaxError. A value is
\* [type, keys, terms]: terms describes the value under the key "terms".
JSONValue(type, keys, termsType, n) ==
  [type |-> type, keys |-> keys, terms |-> [type |-> termsType, len |-> n]]

JSONparse(text) ==
  CASE text = "{\"terms\":[{\"term\":\"a\"}]}" ->
         [ok |-> TRUE, value |-> JSONValue("object", {"terms"}, "array", 1)]
    [] text = "{\"terms\":[]}" ->
         [ok |-> TRUE, value |-> JSONValue("object", {"terms"}, "array", 0)]
    [] text = "{}" ->
         [ok |-> TRUE, value |-> JSONValue("object", {}, "undefined", 0)]
    [] text = "null" ->
         [ok |-> TRUE, value |-> JSONValue("null", {}, "undefined", 0)]
    [] text = "{\"terms\":7}" ->
         [ok |-> TRUE, value |-> JSONValue("object", {"terms"}, "number", 0)]
    [] OTHER ->
         [ok |-> FALSE, value |-> JSONValue("undefined", {}, "undefined", 0)]

\* Array.isArray(v.terms) for a parsed value v.
HasTermsArray(v) ==
  v.type = "object" /\ "terms" \in v.keys /\ v.terms.type = "array"

VARIABLES
  uploaded_files,    \* table uploaded_files: sequence of rows, id = index
  data_glossary,     \* table data_glossary: ids of the files with rows upserted
  processingQueue,   \* BackgroundGlossaryProcessor.processingQueue
  glossaryExtractor, \* BackgroundGlossaryProcessor.glossaryExtractor is set
  apiKeySet,         \* process.env.GOOGLE_AI_STUDIO_API_KEY is set
  runs,              \* the calls of processFileInBackground that passed the guard
  skipped,           \* number of calls that returned at the guard
  req,               \* the POST /upload request followed through the route
  input,             \* FileProcessor called on its own: the arguments
  output,            \* FileProcessor called on its own: what the call returned
  users,             \* table public.users: firebase_uid -> row
  login,             \* the POST /sessionLogin request followed through the route
  database,          \* db.ts: `connected`, the connects of the client, the calls
  chat               \* chat_sessions, chat_messages and the chatbot requests

vars == <<uploaded_files, data_glossary, processingQueue, glossaryExtractor,
          apiKeySet, runs, skipped, req, input, output, users, login, database, chat>>

\* What the upload route and the processing runs never write: the
\* environment, and the state of the components driven on their own.
fileProcessorVars == <<input, output>>
userVars == <<users, login>>
serviceVars == <<database, chat>>
envVars == <<apiKeySet, fileProcessorVars, userVars, serviceVars>>

\* What the other components never write.
pipelineVars == <<uploaded_files, data_glossary, processingQueue, glossaryExtractor,
                  apiKeySet, runs, skipped, req>>


\* ------------------------------------------------------------ error values
TimeoutError == Thrown(TRUE, <<"Request timeout">>)
FetchError == Thrown(TRUE, <<"fetch failed">>)
SyntaxError == Thrown(TRUE, <<"Unexpected end of JSON input">>)
\* The error object supabase-js hands back; whether it is an instance of
\* Error depends on the library version installed.
PostgrestError(isErr) == Thrown(isErr, <<"db error">>)

\* ------------------------------------------------------------ run records
\* The steps of one run, in the order the code issues them.
RunOrder ==
  << "status_processing", "download", "metadata", "process", "prompt",
     "extract", "persist_terms", "persist_rules", "status_processed" >>

\* pc: the I/O call the run is suspended at. steps: the steps completed.
\* preview, text, warnings, invoked: what processFile returned (the number
\* of column profiles, whether there is text) and the readers it called;
\* prompt: the prompt built from it. attempt: the loop counter of extractTermsWithRetry, the
\* number of generateContent calls made so far. inflight: the attempts whose
\* call is unanswered. failures: what each failed attempt threw, in order.
\* waits: the backoff delays waited. result, clientThrew: what the client
\* returned or threw. clientCalls: the calls of extractTermsWithRetry.
NewRun(f) ==
  [ file |-> f, pc |-> "start", failed |-> FALSE, err |-> None,
    preview |-> 0, text |-> FALSE, warnings |-> << >>, invoked |-> {},
    prompt |-> None, attempt |-> 0, inflight |-> {}, lastError |-> None, failures |-> << >>,
    waits |-> << >>, result |-> None, clientThrew |-> None, terms |-> 0,
    clientCalls |-> 0, steps |-> << >>, outcome |-> "none" ]

\* extractTermsWithRetry has returned or thrown: its loop variables are gone
\* and nobody listens to the calls still unanswered.
ExitClient(run) == [run EXCEPT !.inflight = {}, !.lastError = None]

\* The frame of extractFromFile is gone once the run has moved past it: what
\* processFile and the client returned is kept for one step only.
LeaveClient(run) ==
  [run EXCEPT !.preview = 0, !.text = FALSE, !.warnings = << >>, !.invoked = {},
              !.prompt = None,
              !.attempt = 0, !.failures = << >>, !.waits = << >>,
              !.result = None, !.clientThrew = None]

Done(run) == run.pc = "done"
Active(f) == {i \in DOMAIN runs : runs[i].file = f /\ ~Done(runs[i])}

\* ------------------------------------------------ BackgroundGlossaryProcessor
\* `error instanceof Error ? error.message : "Unknown error"`
CatchMessage(e) == IF e.isError THEN e.message ELSE <<"Unknown error">>

\* The catch block: the write of status 'failed' is issued.
Catch_Continues(run, e) ==
  [run EXCEPT !.failed = TRUE, !.err = Some(CatchMessage(e))]
Catch(run, e) ==
  [run EXCEPT !.pc = "statusFailed", !.failed = TRUE, !.err = Some(CatchMessage(e))]

\* The guard at the head of processFileInBackground.
AlreadyProcessing_Never(f) == FALSE
AlreadyProcessing(f) == f \in processingQueue

\* initializeExtractor: new EnhancedGeminiClient() throws without the API key.
InitializeThrows == ~glossaryExtractor /\ ~apiKeySet

\* processFileInBackground(f) up to its first I/O call.
processFileInBackground(f) ==
  IF AlreadyProcessing(f)
  THEN /\ skipped < MaxSkips
       /\ skipped' = skipped + 1
       /\ UNCHANGED <<processingQueue, glossaryExtractor, runs>>
  ELSE /\ Len(runs) < MaxRuns
       /\ processingQueue' = processingQueue \cup {f}
       /\ glossaryExtractor' = (glossaryExtractor \/ apiKeySet)
       /\ LET run == IF InitializeThrows
                     THEN Catch(NewRun(f),
                                Thrown(TRUE, <<"GOOGLE_AI_STUDIO_API_KEY environment variable is required">>))
                     ELSE [NewRun(f) EXCEPT !.pc = "statusProcessing"]
          IN runs' = Append(runs, run)
       /\ UNCHANGED skipped

\* The row update of updateProcessingStatus.
UpdateRow(f, status, extra) ==
  uploaded_files' =
    [uploaded_files EXCEPT ![f] =
       [k \in DOMAIN @ |->
          IF k = "processing_status" THEN status
          ELSE IF k \in DOMAIN extra THEN extra[k] ELSE @[k]]]

\* finally { this.processingQueue.delete(fileId) }
QueueAfterRun_Kept(queue, f) == queue
QueueAfterRun(queue, f) == queue \ {f}

\* The run's promise settles: nothing of its frame is left.
Finally(run, outcome) ==
  [NewRun(run.file) EXCEPT !.pc = "done", !.outcome = outcome]


\* -------------------------------------------------------------------- text
\* A string is the tuple of its characters.
Digits == {"0", "1", "2", "3", "4", "5", "6", "7", "8", "9"}
LowerCase ==
  << "a", "b", "c", "d", "e", "f", "g", "h", "i", "j", "k", "l", "m",
     "n", "o", "p", "q", "r", "s", "t", "u", "v", "w", "x", "y", "z" >>
UpperCase ==
  << "A", "B", "C", "D", "E", "F", "G", "H", "I", "J", "K", "L", "M",
     "N", "O", "P", "Q", "R", "S", "T", "U", "V", "W", "X", "Y", "Z" >>
Letters == {LowerCase[k] : k \in 1..26} \cup {UpperCase[k] : k \in 1..26}
Whitespace == {" ", "\t"}

SetMin(S) == CHOOSE x \in S : \A y \in S : x <= y
SetMax(S) == CHOOSE x \in S : \A y \in S : x >= y

\* String.prototype.toLowerCase
toLowerCase(s) ==
  [k \in 1..Len(s) |->
     IF \E n \in 1..26 : UpperCase[n] = s[k]
     THEN LowerCase[CHOOSE n \in 1..26 : UpperCase[n] = s[k]]
     ELSE s[k]]

\* String.prototype.trim
trim(s) ==
  LET inked == {k \in 1..Len(s) : s[k] \notin Whitespace}
  IN IF inked = {} THEN << >> ELSE SubSeq(s, SetMin(inked), SetMax(inked))

startsWith(s, p) == Len(s) >= Len(p) /\ SubSeq(s, 1, Len(p)) = p

\* Every character of s from position `from` on is in the class.
AllIn(s, from, class) == \A k \in from..Len(s) : s[k] \in class

\* The value of a run of decimal digits.
RECURSIVE DecimalValue(_)
DecimalValue(ds) ==
  IF ds = << >> THEN 0
  ELSE 10 * DecimalValue(SubSeq(ds, 1, Len(ds) - 1))
       + (CHOOSE n \in 0..9 : ToString(n) = ds[Len(ds)])

\* Number(s) for the strings of this model, which hold no fraction, exponent
\* or radix prefix: blank is 0, an optionally signed run of digits is its
\* value, anything else is NaN (None).
Number(s) ==
  LET t == trim(s)
      signed == t # << >> /\ t[1] \in {"-", "+"}
      body == IF signed THEN Tail(t) ELSE t
  IN IF t = << >> THEN Some(0)
     ELSE IF body # << >> /\ AllIn(body, 1, Digits)
     THEN Some(IF signed /\ t[1] = "-" THEN 0 - DecimalValue(body) ELSE DecimalValue(body))
     ELSE None

\* !isNaN(Date.parse(s)) for the strings of this model: the forms
\* yyyy-mm-dd and yyyy/mm/dd parse, no other string of the model does.
DateParses(s) ==
  /\ Len(s) = 10
  /\ \A k \in {1, 2, 3, 4, 6, 7, 9, 10} : s[k] \in Digits
  /\ s[5] \in {"-", "/"} /\ s[8] = s[5]
  /\ DecimalValue(SubSeq(s, 6, 7)) \in 1..12
  /\ DecimalValue(SubSeq(s, 9, 10)) \in 1..31

\* ------------------------------------------------- FileProcessor.detectDataType
\* /^[^\s@]+@[^\s@]+\.[^\s@]+$/
patterns_email(s) ==
  \E i \in 2..Len(s) :
    /\ s[i] = "@"
    /\ \A k \in (1..Len(s)) \ {i} : s[k] \notin Whitespace \cup {"@"}
    /\ \E j \in (i + 2)..(Len(s) - 1) : s[j] = "."

\* /^https?:\/\/.+/i
patterns_url(s) ==
  LET l == toLowerCase(s)
  IN \/ startsWith(l, <<"h", "t", "t", "p", ":", "/", "/">>) /\ Len(s) > 7
     \/ startsWith(l, <<"h", "t", "t", "p", "s", ":", "/", "/">>) /\ Len(s) > 8

\* /^\+?[\d\s\-\(\)]{7,}$/
patterns_phone(s) ==
  LET body == IF s # << >> /\ s[1] = "+" THEN Tail(s) ELSE s
  IN Len(body) >= 7 /\ AllIn(body, 1, Digits \cup Whitespace \cup {"-", "(", ")"})

\* /^[A-Z0-9\-_]{6,}$/i
patterns_id(s) == Len(s) >= 6 /\ AllIn(s, 1, Letters \cup Digits \cup {"-", "_"})

\* /^\s*-?\d+(\.\d+)?\s*$/
patterns_number(s) ==
  LET t == trim(s)
      body == IF t # << >> /\ t[1] = "-" THEN Tail(t) ELSE t
      dots == {k \in 1..Len(body) : body[k] = "."}
  IN /\ body # << >>
     /\ \A k \in (1..Len(body)) \ dots : body[k] \in Digits
     /\ \/ dots = {}
        \/ \E d \in 2..(Len(body) - 1) : dots = {d}

\* /^(true|false|yes|no|y|n|0|1)$/i
patterns_boolean(s) ==
  toLowerCase(s) \in { <<"t", "r", "u", "e">>, <<"f", "a", "l", "s", "e">>,
                       <<"y", "e", "s">>, <<"n", "o">>, <<"y">>, <<"n">>,
                       <<"0">>, <<"1">> }

\* The keys of `scores`, in the order they are declared.
ScoreKeys == <<"email", "url", "phone", "id", "number", "date", "boolean">>

Increments_EveryMatch(value) ==
  LET t == trim(value)
  IN {k \in {"email", "url", "phone", "id", "number", "boolean"} :
        \/ k = "email" /\ patterns_email(t)
        \/ k = "url" /\ patterns_url(t)
        \/ k = "phone" /\ patterns_phone(t)
        \/ k = "id" /\ patterns_id(t)
        \/ k = "number" /\ patterns_number(t)
        \/ k = "boolean" /\ patterns_boolean(t)}
     \cup (IF DateParses(t) /\ Len(t) > 6 THEN {"date"} ELSE {})
\* The if / else-if chain of the scoring loop: the scores one value increments.
Increments(value) ==
  LET t == trim(value)
  IN IF patterns_email(t) THEN {"email"}
     ELSE IF patterns_url(t) THEN {"url"}
     ELSE IF patterns_phone(t) THEN {"phone"}
     ELSE IF patterns_id(t) THEN {"id"}
     ELSE IF patterns_number(t) THEN {"number"}
     ELSE IF patterns_boolean(t) THEN {"boolean"}
     ELSE IF DateParses(t) /\ Len(t) > 6 THEN {"date"}
     ELSE {}

SampleSize_All(values) == Len(values)
\* `sampleSize = Math.min(50, values.length)`
SampleSize(values) == IF Len(values) < 50 THEN Len(values) ELSE 50

\* The scores after the loop over the sample.
Scores(values) ==
  LET sample == SubSeq(values, 1, SampleSize(values))
  IN [k \in {ScoreKeys[n] : n \in 1..Len(ScoreKeys)} |->
        Cardinality({i \in 1..Len(sample) : k \in Increments(sample[i])})]

BelowThreshold_Half(maxScore, sampleSize) == 10 * maxScore < 5 * sampleSize
\* `maxScore < sampleSize * 0.6`; the product is exact in double precision
\* for every sampleSize up to 50.
BelowThreshold(maxScore, sampleSize) == 10 * maxScore < 6 * sampleSize

detectDataType(values) ==
  IF values = << >> THEN "unknown"
  ELSE LET scores == Scores(values)
           maxScore == SetMax({scores[ScoreKeys[n]] : n \in 1..Len(ScoreKeys)})
       IN IF BelowThreshold(maxScore, SampleSize(values)) THEN "string"
          ELSE ScoreKeys[SetMin({n \in 1..Len(ScoreKeys) : scores[ScoreKeys[n]] = maxScore})]

\* --------------------------------------------- FileProcessor.calculateStatistics
\* `numbers.reduce((a, b) => a + b, 0)`, summed value by value.
RECURSIVE SumOver(_, _)
SumOver(vs, numbers) ==
  IF vs = {} THEN 0
  ELSE LET v == CHOOSE x \in vs : TRUE
       IN v * Cardinality({i \in 1..Len(numbers) : numbers[i] = v}) + SumOver(vs \ {v}, numbers)

IsANumber(s) == Number(s) # None

NumbersOf_All(values) ==
  [i \in 1..Len(values) |-> IF Number(values[i]) = None THEN 0 ELSE Number(values[i])[1]]
\* `values.map(Number).filter((n) => !isNaN(n))`
NumbersOf(values) ==
  LET kept == SelectSeq(values, IsANumber)
  IN [i \in 1..Len(kept) |-> Number(kept[i])[1]]

\* avg is the quotient sum / count, kept as the pair.
calculateStatistics(values, type) ==
  IF type # "number" \/ values = << >> THEN None
  ELSE LET numbers == NumbersOf(values)
           vs == {numbers[i] : i \in 1..Len(numbers)}
       IN IF numbers = << >> THEN None
          ELSE Some([min |-> SetMin(vs), max |-> SetMax(vs),
                     avg |-> [sum |-> SumOver(vs, numbers), count |-> Len(numbers)]])

\* ------------------------------------------------ FileProcessor.profileColumns
\* A parsed row maps the column name to a raw cell: a string, null, or no
\* entry at all. The rows of this model have the one column `amount`.
Columns == <<"amount">>
Str(s) == [kind |-> "string", s |-> s]
Null == [kind |-> "null", s |-> << >>]
Absent == [kind |-> "absent", s |-> << >>]
Row(cell) == [amount |-> cell]

IsKey(row, name) == row[name].kind # "absent"
ObjectKeys_Header(row) == Columns
\* Object.keys(rows[0] || {})
ObjectKeys(row) == IF IsKey(row, "amount") THEN Columns ELSE << >>

\* `String(row[name] ?? "")`
Stringified(cell) == IF cell.kind = "string" THEN cell.s ELSE << >>

NotBlank(v) == trim(v) # << >>

AnalysisRows_All(rows) == rows
\* `rows.slice(0, MAX_ROWS_TO_ANALYZE)`
AnalysisRows(rows) ==
  SubSeq(rows, 1, IF Len(rows) < MAX_ROWS_TO_ANALYZE THEN Len(rows) ELSE MAX_ROWS_TO_ANALYZE)

\* `analysisRows.map((row) => String(row[name] ?? "")).filter((v) => v.trim())`
ValuesOf(analysisRows, name) ==
  SelectSeq([i \in 1..Len(analysisRows) |-> Stringified(analysisRows[i][name])], NotBlank)

\* `v == null || v === ""` over the raw cells.
NullCount(analysisRows, name) ==
  Cardinality({i \in 1..Len(analysisRows) :
                 analysisRows[i][name].kind # "string" \/ analysisRows[i][name].s = << >>})

\* Array.from(new Set(values)): the distinct values in first-seen order.
RECURSIVE InOrder(_, _)
InOrder(firsts, values) ==
  IF firsts = {} THEN << >>
  ELSE <<values[SetMin(firsts)]>> \o InOrder(firsts \ {SetMin(firsts)}, values)

Distinct(values) ==
  LET set == {values[i] : i \in 1..Len(values)}
      firsts == {SetMin({i \in 1..Len(values) : values[i] = v}) : v \in set}
  IN InOrder(firsts, values)

\* `values.slice(0, TYPE_DETECTION_SAMPLE_SIZE)`
TypeSample(values) ==
  SubSeq(values, 1, IF Len(values) < TYPE_DETECTION_SAMPLE_SIZE THEN Len(values)
                    ELSE TYPE_DETECTION_SAMPLE_SIZE)

\* `statistics = this.calculateStatistics(values, detectedType)`
StatisticsFor(values, type) == calculateStatistics(values, type)

\* One element of the returned list.
ColumnPreview(name, analysisRows, sampleCount) ==
  LET values == ValuesOf(analysisRows, name)
      unique == Distinct(values)
      detectedType == detectDataType(TypeSample(values))
  IN [ name |-> name,
       detectedType |-> detectedType,
       samples |-> SubSeq(unique, 1, IF Len(unique) < sampleCount THEN Len(unique) ELSE sampleCount),
       nullCount |-> NullCount(analysisRows, name),
       uniqueCount |-> Len(unique),
       statistics |-> StatisticsFor(values, detectedType) ]

profileColumns(rows, sampleCount) ==
  IF rows = << >> THEN << >>
  ELSE LET columns == ObjectKeys(rows[1])
           analysisRows == AnalysisRows(rows)
       IN [c \in 1..Len(columns) |-> ColumnPreview(columns[c], analysisRows, sampleCount)]

\* ------------------------------------------------- FileProcessor.processFile
TabularExtensions == {".csv", ".xlsx", ".xls", ".tsv", ".json"}
\* The media types of this model that contain one of the keywords
\* csv, excel, sheet, tab-separated, json.
TabularMimeTypes ==
  { "text/csv", "application/vnd.ms-excel", "application/json",
    "application/vnd.openxmlformats-officedocument.spreadsheetml.sheet" }

looksTabular(ext, mime) == ext \in TabularExtensions \/ mime \in TabularMimeTypes

IsPdf(ext, mime) == ext = ".pdf" \/ mime = "application/pdf"

\* What the parsers do with the bytes. readTabular returns rows or throws.
\* pdfParse returns text ("text"), returns the empty string ("empty") or
\* throws ("throws").
Parsed(rows) == [threw |-> FALSE, rows |-> rows]
ParseThrows == [threw |-> TRUE, rows |-> << >>]
PdfOutcomes == {"text", "empty", "throws"}

\* readUnstructured: text is whether the returned string is non-empty. A
\* file that is not a PDF is decoded as UTF-8, which cannot fail.
readUnstructured(meta, pdf) ==
  IF IsPdf(meta.ext, meta.mime) /\ pdf = "throws"
  THEN [threw |-> TRUE, text |-> FALSE,
        error |-> Thrown(TRUE, <<"Failed to extract text from file: ", "pdf error">>)]
  ELSE [threw |-> FALSE, text |-> ~(IsPdf(meta.ext, meta.mime) /\ pdf = "empty"),
        error |-> Thrown(TRUE, << >>)]

\* What processFile returns or throws; invoked: the readers it has called.
ProcessResult(threw, e, columnPreview, text, warnings, invoked) ==
  [threw |-> threw, error |-> e, columnPreview |-> columnPreview, text |-> text,
   warnings |-> warnings, invoked |-> invoked]

TooLarge_Never(meta) == FALSE
\* `metadata.size > MAX_FILE_SIZE`
TooLarge(meta) == meta.size > MAX_FILE_SIZE

\* `rows.length > MAX_ROWS_TO_ANALYZE`: the warning pushed.
LargeDatasetWarnings(rows) ==
  IF Len(rows) > MAX_ROWS_TO_ANALYZE
  THEN << <<"Large dataset: analyzed first ", ToString(MAX_ROWS_TO_ANALYZE),
            " rows of ", ToString(Len(rows))>> >>
  ELSE << >>

FallbackWarning ==
  <<"Tabular processing failed: ", "Error: Failed to parse tabular data",
    ". Falling back to text processing.">>

Fallback_Rethrows(meta, pdf) ==
  ProcessResult(TRUE, Thrown(TRUE, <<"Failed to parse tabular data">>), << >>, FALSE,
                << >>, {"readTabular"})
\* The catch block of the tabular branch.
Fallback(meta, pdf) ==
  LET u == readUnstructured(meta, pdf)
  IN ProcessResult(u.threw, u.error, << >>, u.text, <<FallbackWarning>>,
                   {"readTabular", "readUnstructured"})

processFile(meta, parsed, pdf) ==
  IF TooLarge(meta)
  THEN ProcessResult(TRUE, Thrown(TRUE, <<"File too large: ", ToString(meta.size)>>),
                     << >>, FALSE, << >>, {})
  ELSE IF looksTabular(meta.ext, meta.mime)
  THEN IF ~parsed.threw
       THEN ProcessResult(FALSE, Thrown(TRUE, << >>),
                          profileColumns(parsed.rows, SAMPLE_VALUES_COUNT), FALSE,
                          LargeDatasetWarnings(parsed.rows), {"readTabular", "profileColumns"})
       ELSE Fallback(meta, pdf)
  ELSE LET u == readUnstructured(meta, pdf)
       IN ProcessResult(u.threw, u.error, << >>, u.text, << >>, {"readUnstructured"})

\* determineExtractionMode, on the stored metadata.
determineExtractionMode(meta) ==
  IF \/ meta.size > OneMB
     \/ meta.mime \in {"text/csv", "application/vnd.ms-excel",
                       "application/vnd.openxmlformats-officedocument.spreadsheetml.sheet"}
     \/ meta.ext \in {".xlsx", ".xls", ".csv"}
     \/ meta.mime = "application/pdf"
     \/ meta.ext = ".pdf"
  THEN "comprehensive" ELSE "basic"

buildEnhancedPrompt_BasicAsDocument(preview, mode) ==
  [branch |-> IF preview > 0 /\ mode = "comprehensive" THEN "tabular" ELSE "document",
   mode |-> mode]
\* buildEnhancedPrompt: the branch taken and the mode rendered into the text.
buildEnhancedPrompt(preview, mode) ==
  [branch |-> IF preview > 0 THEN "tabular" ELSE "document", mode |-> mode]

\* ------------------------------------------------------ EnhancedGeminiClient
\* `delay = RETRY_DELAY * Math.pow(2, attempt - 1)`
BackoffDelay_Fixed(attempt) == RETRY_DELAY
BackoffDelay(attempt) == RETRY_DELAY * Pow2(attempt - 1)

\* `if (attempt < MAX_RETRIES)`: a delay follows the failed attempt.
RetryAfter(attempt) == attempt < MAX_RETRIES

\* `attempt <= MAX_RETRIES`, the condition of the for loop.
LoopContinues_OneMore(attempt) == attempt <= MAX_RETRIES + 1
LoopContinues(attempt) == attempt <= MAX_RETRIES

\* `lastError = error as Error`
KeepError_First(last, e) == IF last = None THEN Some(e) ELSE last
KeepError(last, e) == Some(e)

\* The error thrown after the loop.
AggregatedError(last) ==
  Thrown(TRUE, <<"Gemini API failed after ", ToString(MAX_RETRIES), " attempts: ">>
               \o (IF last = None THEN <<"undefined">> ELSE last[1].message))

\* Body of the loop up to the await: generateContent is called and the
\* timeout timer armed.
CallService(run) ==
  [run EXCEPT !.attempt = @ + 1, !.inflight = @ \cup {run.attempt + 1}, !.pc = "awaiting"]

\* The head of the for loop with the counter advanced: another pass, or the
\* throw after the loop, caught by the run's catch block.
NextPass(run) ==
  IF LoopContinues(run.attempt + 1)
  THEN CallService(run)
  ELSE Catch(ExitClient([run EXCEPT !.clientThrew = Some(AggregatedError(run.lastError))]),
             AggregatedError(run.lastError))

\* The catch block of the loop, entered with the thrown value e.
AttemptFailed(run, e) ==
  LET r1 == [run EXCEPT !.lastError = KeepError(run.lastError, e),
                        !.failures = Append(@, e)]
  IN IF RetryAfter(run.attempt)
     THEN [r1 EXCEPT !.pc = "backoff",
                     !.waits = Append(@, [after |-> run.attempt, delay |-> BackoffDelay(run.attempt)])]
     ELSE NextPass(r1)

\* The race of attempt a of the run is still undecided.
IsCurrentAttempt_AnyCall(run, a) == run.pc = "awaiting"
IsCurrentAttempt(run, a) == run.pc = "awaiting" /\ a = run.attempt

\* ------------------------------------------------- after the client returns
\* `(aiResponse?.terms as GlossaryTerm[]) || []` handed to deduplicateTerms,
\* which iterates it: a truthy non-array value is not iterable. A list of
\* at most one term is its own deduplication.
TermsOf(v) ==
  IF v.type = "null" \/ "terms" \notin v.keys THEN [threw |-> FALSE, len |-> 0]
  ELSE IF v.terms.type = "array" THEN [threw |-> FALSE, len |-> v.terms.len]
  ELSE [threw |-> TRUE, len |-> 0]

\* saveExtractedRules with the empty rule list the extractor yields returns 0
\* without a database call; the write of status 'processed' is issued.
AfterTermsSaved(run) ==
  [run EXCEPT !.pc = "statusProcessed",
              !.steps = @ \o <<"persist_terms", "persist_rules">>]

\* From the client's return to the next I/O call of the run.
AfterExtract(run, a, v) ==
  LET t == TermsOf(v)
      r1 == [ExitClient(run) EXCEPT
               !.result = Some([attempt |-> a, value |-> v]),
               !.steps = Append(@, "extract")]
  IN IF t.threw THEN Catch(r1, Thrown(TRUE, <<"terms is not iterable">>))
     ELSE IF t.len = 0 THEN AfterTermsSaved([r1 EXCEPT !.terms = 0])
     ELSE [r1 EXCEPT !.terms = t.len, !.pc = "saveTerms"]


\* --------------------------------------------------------------- the routes
\* The exported processFileInBackground starts the run and returns without
\* awaiting it: its promise is settled whatever the run of file f does.
WrapperSettled_AwaitsRun(f) == f \notin processingQueue
WrapperSettled(f) == TRUE

\* `processingStatus: fileRecord.processing_status`
ResponseStatus(fileRecord, stored) == fileRecord.processing_status

NewRequest ==
  [pc |-> "new", kind |-> None, fileRecord |-> None, resp |-> None]

Response(code, status, inFlight) ==
  Some([code |-> code, processingStatus |-> status, inFlight |-> inFlight])

\* A continuation of a settled promise runs before any I/O completion is
\* delivered: while a request waits on the settled wrapper, nothing else runs.
Idle == ~(req.pc = "triggered" /\ WrapperSettled(req.fileRecord[1].id))

\* The row of uploaded_files for a file of the kind, as inserted.
FileRow(kind) ==
  [ext |-> kind.ext, mime_type |-> kind.mime, file_size |-> kind.size,
   processing_status |-> "pending", error_message |-> None,
   extracted_terms_count |-> None]

\* Rows the table may hold when the process starts, written by an earlier
\* process or another writer of the table: their size is not bounded by
\* the upload route.
StoredKinds ==
  { [ext |-> ".csv", mime |-> "text/csv",   size |-> MAX_FILE_SIZE + 1],
    [ext |-> ".txt", mime |-> "text/plain", size |-> MAX_FILE_SIZE] }

NoRequest == [NewRequest EXCEPT !.pc = "done"]

\* The components driven on their own, at rest.
FileProcessorAtRest == input = None /\ output = None
UsersAtRest == users = {} /\ login = None
ServicesAtRest == database = None /\ chat = None

\* The process starts with an empty table and serves an upload, or starts
\* with a stored file that is processed on request.
Init ==
  /\ \/ uploaded_files = << >> /\ req = NewRequest
     \/ \E kind \in StoredKinds :
          uploaded_files = <<FileRow(kind)>> /\ req = NoRequest
  /\ data_glossary = {}
  /\ processingQueue = {}
  /\ glossaryExtractor = FALSE
  /\ apiKeySet \in BOOLEAN
  /\ runs = << >>
  /\ skipped = 0
  /\ FileProcessorAtRest
  /\ UsersAtRest
  /\ ServicesAtRest

RunVars == <<processingQueue, glossaryExtractor, runs, skipped>>

AcceptedMime_Any(mimetype) == TRUE
\* `ACCEPTED_MIME.has(mimetype)`
AcceptedMime(mimetype) == mimetype \in ACCEPTED_MIME

\* POST /upload arrives: the checks before the storage upload.
UploadReceive ==
  /\ Idle
  /\ req.pc = "new"
  /\ \E hasFile \in BOOLEAN, kind \in UploadKinds :
       req' =
         IF ~hasFile
         THEN [req EXCEPT !.pc = "done", !.resp = Response(400, "none", FALSE)]
         ELSE IF ~AcceptedMime(kind.mime)
         THEN [req EXCEPT !.pc = "done", !.kind = Some(kind),
                          !.resp = Response(415, "none", FALSE)]
         ELSE [req EXCEPT !.pc = "uploading", !.kind = Some(kind)]
  /\ UNCHANGED <<uploaded_files, data_glossary, envVars, RunVars>>

\* supabase.storage.upload returns.
UploadStored ==
  /\ Idle
  /\ req.pc = "uploading"
  /\ \E ok \in BOOLEAN :
       req' = IF ok THEN [req EXCEPT !.pc = "signing"]
              ELSE [req EXCEPT !.pc = "done", !.resp = Response(502, "none", FALSE)]
  /\ UNCHANGED <<uploaded_files, data_glossary, envVars, RunVars>>

\* createSignedUrl returns; a failure is logged and the route goes on.
UploadSigned ==
  /\ Idle
  /\ req.pc = "signing"
  /\ req' = [req EXCEPT !.pc = "inserting"]
  /\ UNCHANGED <<uploaded_files, data_glossary, envVars, RunVars>>

\* The INSERT ... RETURNING settles: a row, no row, or a thrown error. With
\* a row the background run is triggered.
UploadInserted ==
  /\ Idle
  /\ req.pc = "inserting"
  /\ \E outcome \in {"row", "norows", "throws"} :
       IF outcome = "row"
       THEN LET id == Len(uploaded_files) + 1
                row == FileRow(req.kind[1])
            IN /\ uploaded_files' = Append(uploaded_files, row)
               /\ processFileInBackground(id)
               /\ req' = [req EXCEPT
                    !.pc = "triggered",
                    !.fileRecord = Some([id |-> id, processing_status |-> row.processing_status])]
       ELSE /\ req' = [req EXCEPT !.pc = "done", !.resp = Response(500, "none", FALSE)]
            /\ UNCHANGED <<uploaded_files, RunVars>>
  /\ UNCHANGED <<data_glossary, envVars>>

\* The route resumes after `await processFileInBackground(...)` and answers.
\* inFlight records whether the run was still going when the answer left.
UploadRespond ==
  /\ req.pc = "triggered"
  /\ LET rec == req.fileRecord[1]
     IN /\ WrapperSettled(rec.id)
        /\ req' = [req EXCEPT
             !.pc = "done",
             !.resp = Response(200,
                        ResponseStatus(rec, uploaded_files[rec.id].processing_status),
                        rec.id \in processingQueue)]
  /\ UNCHANGED <<uploaded_files, data_glossary, envVars, RunVars>>

\* POST /upload/debug-process/:fileId for a stored file: the row is found
\* and the run triggered.
DebugProcess(f) ==
  /\ Idle
  /\ f \in DOMAIN uploaded_files
  /\ processFileInBackground(f)
  /\ UNCHANGED <<uploaded_files, data_glossary, envVars, req>>


\* ------------------------------------------------------------- run actions
RunAt(i, pc) == Idle /\ i \in DOMAIN runs /\ runs[i].pc = pc
SetRun(i, run) == runs' = [runs EXCEPT ![i] = run]
Meta(f) == [ext |-> uploaded_files[f].ext, mime |-> uploaded_files[f].mime_type,
            size |-> uploaded_files[f].file_size]

\* updateProcessingStatus(fileId, "processing") returns.
StatusProcessingDone(i) ==
  /\ RunAt(i, "statusProcessing")
  /\ \E ok \in BOOLEAN, isErr \in BOOLEAN :
       IF ok
       THEN /\ UpdateRow(runs[i].file, "processing", << >>)
            /\ SetRun(i, [runs[i] EXCEPT !.pc = "download",
                                         !.steps = Append(@, "status_processing")])
       ELSE /\ SetRun(i, Catch(runs[i], PostgrestError(isErr)))
            /\ UNCHANGED uploaded_files
  /\ UNCHANGED <<data_glossary, processingQueue, glossaryExtractor, envVars, skipped, req>>

\* downloadFileFromStorage returns.
DownloadDone(i) ==
  /\ RunAt(i, "download")
  /\ \E ok \in BOOLEAN :
       SetRun(i, IF ok
                 THEN [runs[i] EXCEPT !.pc = "metadata", !.steps = Append(@, "download")]
                 ELSE Catch(runs[i], Thrown(TRUE, <<"Failed to download file: ", "storage error">>)))
  /\ UNCHANGED <<uploaded_files, data_glossary, processingQueue, glossaryExtractor,
                 envVars, skipped, req>>

\* getFileMetadata returns: the row, or null on a query error.
MetadataDone(i) ==
  /\ RunAt(i, "metadata")
  /\ \E ok \in BOOLEAN :
       SetRun(i, IF ok
                 THEN [runs[i] EXCEPT !.pc = "processFile", !.steps = Append(@, "metadata")]
                 ELSE Catch(runs[i], Thrown(TRUE, <<"File metadata not found for ID: ",
                                                    ToString(runs[i].file)>>)))
  /\ UNCHANGED <<uploaded_files, data_glossary, processingQueue, glossaryExtractor,
                 envVars, skipped, req>>

\* What readTabular makes of the bytes a run has downloaded: it throws, or
\* returns no row, or one row.
RunParseOutcomes ==
  { ParseThrows, Parsed(<< >>), Parsed(<<Row(Str(<<"1", "0", "0">>))>>) }

\* extractFromFile up to its second await: processFile has returned or
\* thrown, the prompt is built and the client called: the first pass of its loop.
extractFromFile(run, meta, parsed, pdf, extractionMode) ==
  LET res == processFile(meta, parsed, pdf)
      r1 == [run EXCEPT !.preview = Len(res.columnPreview), !.text = res.text,
                        !.warnings = res.warnings, !.invoked = res.invoked]
  IN IF res.threw
     THEN Catch([run EXCEPT !.invoked = res.invoked], res.error)
     ELSE NextPass([r1 EXCEPT !.prompt = Some(buildEnhancedPrompt(r1.preview, extractionMode)),
                              !.clientCalls = @ + 1,
                              !.steps = @ \o <<"process", "prompt">>])

\* FileProcessor.processFile returns to the extractFromFile of run i.
ProcessFileDone(i) ==
  /\ RunAt(i, "processFile")
  /\ \E parsed \in RunParseOutcomes, pdf \in PdfOutcomes :
       LET meta == Meta(runs[i].file)
       IN SetRun(i, extractFromFile(runs[i], meta, parsed, pdf, determineExtractionMode(meta)))
  /\ UNCHANGED <<uploaded_files, data_glossary, processingQueue, glossaryExtractor,
                 envVars, skipped, req>>

\* generateContent of the current attempt resolves with a text.
ServiceAnswer(i, a) ==
  /\ Idle /\ i \in DOMAIN runs
  /\ a \in runs[i].inflight
  /\ IsCurrentAttempt(runs[i], a)
  /\ \E text \in ResponseTexts :
       LET parsed == JSONparse(text)
           r1 == [runs[i] EXCEPT !.inflight = @ \ {a}]
       IN SetRun(i, IF parsed.ok THEN AfterExtract(r1, a, parsed.value)
                    ELSE AttemptFailed(r1, SyntaxError))
  /\ UNCHANGED <<uploaded_files, data_glossary, processingQueue, glossaryExtractor,
                 envVars, skipped, req>>

\* generateContent of the current attempt rejects (HTTP or network error).
ServiceReject(i) ==
  /\ RunAt(i, "awaiting")
  /\ SetRun(i, AttemptFailed([runs[i] EXCEPT !.inflight = @ \ {runs[i].attempt}], FetchError))
  /\ UNCHANGED <<uploaded_files, data_glossary, processingQueue, glossaryExtractor,
                 envVars, skipped, req>>

AttemptTimeout_Never(i) == FALSE
\* The REQUEST_TIMEOUT timer of the current attempt fires first: the race
\* rejects, the call itself stays unanswered.
AttemptTimeout(i) ==
  /\ RunAt(i, "awaiting")
  /\ SetRun(i, AttemptFailed(runs[i], TimeoutError))
  /\ UNCHANGED <<uploaded_files, data_glossary, processingQueue, glossaryExtractor,
                 envVars, skipped, req>>

\* A call answers (or rejects) after its race was decided: nobody listens.
ServiceLate(i, a) ==
  /\ Idle /\ i \in DOMAIN runs
  /\ a \in runs[i].inflight
  /\ ~IsCurrentAttempt(runs[i], a)
  /\ SetRun(i, [runs[i] EXCEPT !.inflight = @ \ {a}])
  /\ UNCHANGED <<uploaded_files, data_glossary, processingQueue, glossaryExtractor,
                 envVars, skipped, req>>

\* The backoff timer fires: the loop's next pass.
BackoffElapsed(i) ==
  /\ RunAt(i, "backoff")
  /\ SetRun(i, NextPass(runs[i]))
  /\ UNCHANGED <<uploaded_files, data_glossary, processingQueue, glossaryExtractor,
                 envVars, skipped, req>>

\* The upsert of saveExtractedTerms returns.
SaveTermsDone(i) ==
  /\ RunAt(i, "saveTerms")
  /\ \E ok \in BOOLEAN :
       IF ok
       THEN /\ data_glossary' = data_glossary \cup {runs[i].file}
            /\ SetRun(i, AfterTermsSaved(LeaveClient(runs[i])))
       ELSE /\ SetRun(i, Catch(LeaveClient(runs[i]),
                               Thrown(TRUE, <<"Database insertion failed: ", "db error">>)))
            /\ UNCHANGED data_glossary
  /\ UNCHANGED <<uploaded_files, processingQueue, glossaryExtractor, envVars, skipped, req>>

\* updateProcessingStatus(fileId, "processed", ...) returns.
StatusProcessedDone(i) ==
  /\ RunAt(i, "statusProcessed")
  /\ \E ok \in BOOLEAN, isErr \in BOOLEAN :
       IF ok
       THEN /\ UpdateRow(runs[i].file, "processed",
                         [extracted_terms_count |-> Some(runs[i].terms)])
            /\ SetRun(i, Finally(runs[i], "processed"))
            /\ processingQueue' = QueueAfterRun(processingQueue, runs[i].file)
       ELSE /\ SetRun(i, Catch(LeaveClient(runs[i]), PostgrestError(isErr)))
            /\ UNCHANGED <<uploaded_files, processingQueue>>
  /\ UNCHANGED <<data_glossary, glossaryExtractor, envVars, skipped, req>>

\* updateProcessingStatus(fileId, "failed", ...) of the catch block returns;
\* on an error it throws out of the catch block. Either way finally runs.
StatusFailedDone(i) ==
  /\ RunAt(i, "statusFailed")
  /\ \E ok \in BOOLEAN :
       IF ok
       THEN /\ UpdateRow(runs[i].file, "failed", [error_message |-> runs[i].err])
            /\ SetRun(i, Finally(runs[i], "failed"))
       ELSE /\ SetRun(i, Finally(runs[i], "rejected"))
            /\ UNCHANGED uploaded_files
  /\ processingQueue' = QueueAfterRun(processingQueue, runs[i].file)
  /\ UNCHANGED <<data_glossary, glossaryExtractor, envVars, skipped, req>>

Next ==
  \/ UploadReceive \/ UploadStored \/ UploadSigned \/ UploadInserted \/ UploadRespond
  \/ \E f \in DOMAIN uploaded_files : DebugProcess(f)
  \/ \E i \in 1..MaxRuns :
       \/ StatusProcessingDone(i) \/ DownloadDone(i) \/ MetadataDone(i)
       \/ ProcessFileDone(i) \/ ServiceReject(i) \/ AttemptTimeout(i)
       \/ BackoffElapsed(i) \/ SaveTermsDone(i) \/ StatusProcessedDone(i)
       \/ StatusFailedDone(i)
       \/ \E a \in 1..MAX_RETRIES : ServiceAnswer(i, a) \/ ServiceLate(i, a)

Spec == Init /\ [][Next]_vars

\* What is bound to happen to run i: each storage and database call returns
\* or fails, each timer fires. Whether the service ever answers is left open.
RunProgress(i) ==
  \/ StatusProcessingDone(i) \/ DownloadDone(i) \/ MetadataDone(i)
  \/ ProcessFileDone(i) \/ AttemptTimeout(i) \/ BackoffElapsed(i)
  \/ SaveTermsDone(i) \/ StatusProcessedDone(i) \/ StatusFailedDone(i)

\* The steps of the process while at most MaxFairRuns runs are started.
FairRuns == Len(runs') <= MaxFairRuns

NextFair ==
  \/ UploadReceive \/ UploadStored \/ UploadSigned \/ UploadRespond
  \/ UploadInserted /\ FairRuns
  \/ \E f \in DOMAIN uploaded_files : DebugProcess(f) /\ FairRuns
  \/ \E i \in 1..MaxFairRuns :
       \/ StatusProcessingDone(i) \/ DownloadDone(i) \/ MetadataDone(i)
       \/ ProcessFileDone(i) \/ ServiceReject(i) \/ AttemptTimeout(i)
       \/ BackoffElapsed(i) \/ SaveTermsDone(i) \/ StatusProcessedDone(i)
       \/ StatusFailedDone(i)
       \/ \E a \in 1..MAX_RETRIES : ServiceAnswer(i, a) \/ ServiceLate(i, a)

\* The continuation of the settled wrapper runs, and every run progresses.
SpecFair ==
  /\ Init /\ [][NextFair]_vars
  /\ WF_vars(UploadRespond)
  /\ \A i \in 1..MaxFairRuns : WF_vars(RunProgress(i))

\* ================================================= FileProcessor on its own
\* The cell texts of the row sets.
CellTexts ==
  { <<"1", "0", "0">>, <<"2", "5", "0">>, <<"-", "5">>, <<" ", "4", "2", " ">>,
    <<"1">>, <<"a", "b", "c">>, <<"t", "r", "u", "e">>,
    <<"1", "2", "3", "4", "5", "6">>, <<"1", "2", "3", "4", "5", "6", "7">>,
    <<"a", "@", "b", ".", "c", "o">>, <<"h", "t", "t", "p", ":", "/", "/", "x">>,
    <<"2", "0", "2", "4", "/", "0", "1", "/", "1", "5">>, << >> }

RawCells == {Absent, Null} \cup {Str(t) : t \in CellTexts}

\* Every row set of at most MaxRows rows.
SmallRowSets == UNION {[1..n -> {Row(c) : c \in RawCells}] : n \in 0..MaxRows}

\* n rows: the first k hold a, the others b.
Repeat(n, k, a, b) == [i \in 1..n |-> Row(Str(IF i <= k THEN a ELSE b))]

\* Row sets around the caps: 50 values scored, MAX_ROWS_TO_ANALYZE rows read.
LargeShapes ==
  { <<60, 29>>, <<60, 30>>, <<50, 30>>, <<100, 50>>, <<1000, 600>>, <<1001, 1000>>,
    <<1500, 1000>>, <<1500, 20>> }
LargePairs ==
  { << <<"1", "0", "0">>, <<"a", "b", "c">> >>,
    << <<"a", "b", "c">>, <<"2", "5", "0">> >>,
    << <<"1", "2", "3", "4", "5", "6", "7">>, <<"2", "5", "0">> >> }
LargeRowSets ==
  {Repeat(sh[1], sh[2], pr[1], pr[2]) : sh \in LargeShapes, pr \in LargePairs}

\* The declared name, media type and size of the file.
FileMetas ==
  { [ext |-> ".csv", mime |-> "text/csv",        size |-> 2048],
    [ext |-> ".csv", mime |-> "text/csv",        size |-> MAX_FILE_SIZE],
    [ext |-> ".csv", mime |-> "text/csv",        size |-> MAX_FILE_SIZE + 1],
    [ext |-> ".csv", mime |-> "application/pdf", size |-> 2048],
    [ext |-> ".pdf", mime |-> "application/pdf", size |-> 2048],
    [ext |-> ".pdf", mime |-> "application/pdf", size |-> MAX_FILE_SIZE + 1],
    [ext |-> ".txt", mime |-> "text/plain",      size |-> 2048] }

\* amount = 100, 250, abc.
ScenarioRowSets ==
  { << Row(Str(<<"1", "0", "0">>)), Row(Str(<<"2", "5", "0">>)),
       Row(Str(<<"a", "b", "c">>)) >> }

FileProcessorInputs ==
  [meta : {[ext |-> ".csv", mime |-> "text/csv", size |-> 2048]},
   parsed : {Parsed(rows) : rows \in SmallRowSets \cup ScenarioRowSets \cup LargeRowSets},
   pdf : {"text"}]
  \cup [meta : FileMetas, parsed : RunParseOutcomes, pdf : PdfOutcomes]

PipelineAtRest ==
  /\ uploaded_files = << >> /\ data_glossary = {} /\ processingQueue = {}
  /\ glossaryExtractor = FALSE /\ apiKeySet = FALSE /\ runs = << >>
  /\ skipped = 0 /\ req = NoRequest

InitFileProcessor ==
  /\ PipelineAtRest
  /\ UsersAtRest
  /\ ServicesAtRest
  /\ input \in {Some(x) : x \in FileProcessorInputs}
  /\ output = None

\* FileProcessor.processFile(fileBuffer, metadata) is called and settles.
ProcessFileCall ==
  /\ input # None /\ output = None
  /\ output' = Some([fn |-> "processFile",
                     result |-> processFile(input[1].meta, input[1].parsed, input[1].pdf)])
  /\ UNCHANGED <<input, pipelineVars, userVars, serviceVars>>

\* The texts of every cell of the column, blank ones included.
CellValues(rows) == [i \in 1..Len(rows) |-> Stringified(rows[i]["amount"])]

\* detectDataType and calculateStatistics are called on the column's texts.
DetectCall ==
  /\ input # None /\ output = None
  /\ ~input[1].parsed.threw
  /\ LET values == CellValues(input[1].parsed.rows)
         type == detectDataType(values)
     IN output' = Some([fn |-> "detectDataType", values |-> values,
                        scores |-> IF values = << >> THEN None ELSE Some(Scores(values)),
                        type |-> type,
                        statistics |-> calculateStatistics(values, type)])
  /\ UNCHANGED <<input, pipelineVars, userVars, serviceVars>>

NextFileProcessor == ProcessFileCall \/ DetectCall

SpecFileProcessor == InitFileProcessor /\ [][NextFileProcessor]_vars

\* ======================================================= users and sessions
Uids == {"u1", "u2"}
Roles == {"dataTeam", "teamLead"}
Passwords == {"pw1", "pw2"}

\* The rows of public.users with the firebase_uid (it is the conflict key).
RowsOf(table, uid) == {r \in table : r.firebase_uid = uid}

\* SQL COALESCE of two values: the first that is not NULL (None).
COALESCE(a, b) == IF a # None THEN a ELSE b

\* The row proposed for insertion, which ON CONFLICT names EXCLUDED: the
\* VALUES list evaluated, its role being `COALESCE($7, 'dataTeam')`.
EXCLUDED(uid, pw, role, now) ==
  [firebase_uid |-> uid, password |-> pw, role |-> COALESCE(role, Some("dataTeam")),
   last_login_at |-> now]

\* The INSERT ... ON CONFLICT (firebase_uid) DO UPDATE of upsertUser, with
\* pw = opts?.password ?? null and role = opts?.role ?? null.
upsertUser(table, uid, pw, role, now) ==
  LET excluded == EXCLUDED(uid, pw, role, now)
  IN IF RowsOf(table, uid) = {}
     THEN table \cup {excluded}
     ELSE {IF r.firebase_uid = uid
           THEN [r EXCEPT !.password = excluded.password,
                          !.role = COALESCE(excluded.role, r.role),
                          !.last_login_at = now]
           ELSE r : r \in table}

\* getUserRole: `r.rows[0]?.role ?? null`
getUserRole(table, uid) ==
  IF RowsOf(table, uid) = {} THEN None
  ELSE (CHOOSE r \in RowsOf(table, uid) : TRUE).role

\* login.pc: where the request followed is suspended. served: requests
\* answered. upserts: calls of upsertUser made; last: the uid and opts.role
\* of the latest one.
NoLogin ==
  [pc |-> "idle", uid |-> None, password |-> None, resp |-> None,
   served |-> 0, upserts |-> 0, last |-> None]

InitUsers ==
  /\ PipelineAtRest
  /\ ServicesAtRest
  /\ FileProcessorAtRest
  /\ users = {}
  /\ login = NoLogin

Answer(code, role) ==
  [login EXCEPT !.pc = "idle", !.served = @ + 1,
                !.resp = Some([code |-> code, role |-> role])]

\* POST /sessionLogin arrives; without idToken it is answered 400.
LoginReceive ==
  /\ login.pc = "idle" /\ login.served < MaxLogins
  /\ \E hasToken \in BOOLEAN, uid \in Uids, pw \in {None} \cup {Some(x) : x \in Passwords} :
       login' = IF ~hasToken THEN Answer(400, None)
                ELSE [login EXCEPT !.pc = "verifying", !.uid = Some(uid),
                                   !.password = pw, !.resp = None]
  /\ UNCHANGED <<users, pipelineVars, fileProcessorVars, serviceVars>>

\* verifyIdToken settles; a rejection is answered 401.
LoginVerified ==
  /\ login.pc = "verifying"
  /\ \E ok \in BOOLEAN :
       login' = IF ok THEN [login EXCEPT !.pc = "upserting"] ELSE Answer(401, None)
  /\ UNCHANGED <<users, pipelineVars, fileProcessorVars, serviceVars>>

\* `await upsertUser(decoded, { password })` settles; an error is logged.
LoginUpserted ==
  /\ login.pc = "upserting" /\ login.upserts < MaxUpserts
  /\ \E ok \in BOOLEAN :
       IF ok
       THEN /\ users' = upsertUser(users, login.uid[1], login.password, None, login.upserts + 1)
            /\ login' = [login EXCEPT !.pc = "cookie", !.upserts = @ + 1,
                                      !.last = Some([uid |-> login.uid[1], role |-> None])]
       ELSE /\ login' = [login EXCEPT !.pc = "cookie"]
            /\ UNCHANGED users
  /\ UNCHANGED <<pipelineVars, fileProcessorVars, serviceVars>>

\* createSessionCookie settles; a rejection is answered 401.
LoginCookie ==
  /\ login.pc = "cookie"
  /\ \E ok \in BOOLEAN :
       login' = IF ok THEN [login EXCEPT !.pc = "role"] ELSE Answer(401, None)
  /\ UNCHANGED <<users, pipelineVars, fileProcessorVars, serviceVars>>

\* getUserRole settles; without a role the answer says 'dataTeam'.
LoginRole ==
  /\ login.pc = "role"
  /\ \E ok \in BOOLEAN :
       LET fetched == IF ok THEN getUserRole(users, login.uid[1]) ELSE None
       IN login' = Answer(200, IF fetched # None THEN fetched ELSE Some("dataTeam"))
  /\ UNCHANGED <<users, pipelineVars, fileProcessorVars, serviceVars>>

\* upsertUser(decoded, opts) called by other code, with whatever opts.
UpsertUserCall(uid, pw, role) ==
  /\ login.upserts < MaxUpserts
  /\ users' = upsertUser(users, uid, pw, role, login.upserts + 1)
  /\ login' = [login EXCEPT !.upserts = @ + 1, !.last = Some([uid |-> uid, role |-> role])]
  /\ UNCHANGED <<pipelineVars, fileProcessorVars, serviceVars>>

NextUsers ==
  \/ LoginReceive \/ LoginVerified \/ LoginUpserted \/ LoginCookie \/ LoginRole
  \/ \E uid \in Uids, pw \in {None} \cup {Some(x) : x \in Passwords},
        role \in {None} \cup {Some(x) : x \in Roles} : UpsertUserCall(uid, pw, role)

SpecUsers == InitUsers /\ [][NextUsers]_vars

\* ========================================================= deduplicateTerms
\* A GlossaryTerm. An optional field that is missing is None; confidence is
\* in tenths; source_filename and dataset_id are merged as source_file_id is.
TermPool ==
  {
    [ term |-> <<"C", "u", "s", "t", "o", "m", "e", "r", " ", "I", "D">>,
      definition |-> <<"a", "n", " ", "i", "d">>,
      source_columns |-> <<"cid">>, data_types |-> None,
      sample_values |-> None, synonyms |-> Some(<<"cust">>),
      category |-> None, confidence |-> Some(6), source_file_id |-> None ],
    [ term |-> <<" ", "c", "u", "s", "t", "o", "m", "e", "r", " ", "i", "d", " ">>,
      definition |-> <<"c", "u", "s", "t", "o", "m", "e", "r", " ", "k", "e", "y">>,
      source_columns |-> <<"cust", "cid">>, data_types |-> Some(<<"id">>),
      sample_values |-> Some(<<"7">>), synonyms |-> None,
      category |-> Some("key"), confidence |-> Some(9), source_file_id |-> Some("f1") ],
    [ term |-> <<"C", "U", "S", "T", "O", "M", "E", "R", " ", "I", "D">>,
      definition |-> <<"i", "d", " ", "n", "o">>,
      source_columns |-> <<"cid", "cid">>, data_types |-> Some(<<"number">>),
      sample_values |-> None, synonyms |-> Some(<<"cust", "client">>),
      category |-> Some(""), confidence |-> None, source_file_id |-> Some("f2") ],
    [ term |-> <<"R", "e", "v", "e", "n", "u", "e">>,
      definition |-> <<"i", "n", "c", "o", "m", "e">>,
      source_columns |-> <<"rev">>, data_types |-> Some(<<"number">>),
      sample_values |-> Some(<<"10">>), synonyms |-> None,
      category |-> Some("money"), confidence |-> Some(9), source_file_id |-> None ],
    [ term |-> <<"r", "e", "v", "e", "n", "u", "e", " ">>,
      definition |-> <<>>,
      source_columns |-> <<>>, data_types |-> None,
      sample_values |-> Some(<<"10", "20">>), synonyms |-> None,
      category |-> Some("finance"), confidence |-> Some(3), source_file_id |-> Some("f1") ],
    [ term |-> <<"C", "o", "s", "t">>,
      definition |-> <<"s", "p", "e", "n", "d">>,
      source_columns |-> <<"cost", "cost">>, data_types |-> None,
      sample_values |-> None, synonyms |-> None,
      category |-> None, confidence |-> Some(6), source_file_id |-> None ] }

\* `term.term.trim().toLowerCase()`
NormalizedTerm_CaseKept(term) == trim(term.term)
NormalizedTerm(term) == toLowerCase(trim(term.term))

\* `x || []`
OrEmpty(x) == IF x = None THEN << >> ELSE x[1]
\* `x ?? 0`
OrZero(x) == IF x = None THEN 0 ELSE x[1]
\* `a || b` for an optional string: an empty string is falsy.
OrElse(a, b) == IF a # None /\ a[1] # "" THEN a ELSE b
\* `a ?? b`
Coalesce(a, b) == IF a # None THEN a ELSE b

\* `Array.from(new Set([...(a || []), ...(b || [])]))`
MergedArray(a, b) == Distinct(OrEmpty(a) \o OrEmpty(b))

LongerDefinition_Strict(existing, term) ==
  IF Len(existing.definition) > Len(term.definition) THEN existing.definition
  ELSE term.definition
\* `existing.definition.length >= term.definition.length ? existing : term`
LongerDefinition(existing, term) ==
  IF Len(existing.definition) >= Len(term.definition) THEN existing.definition
  ELSE term.definition

MergedConfidence_Last(existing, term) == OrZero(term.confidence)
\* `Math.max(existing.confidence ?? 0, term.confidence ?? 0)`
MergedConfidence(existing, term) ==
  IF OrZero(existing.confidence) >= OrZero(term.confidence)
  THEN OrZero(existing.confidence) ELSE OrZero(term.confidence)

\* The entry stored for a name seen for the first time.
FirstSeen(term) == [term EXCEPT !.term = trim(term.term)]

\* The entry stored for a name seen again.
Merged(existing, term) ==
  [ existing EXCEPT
      !.definition = LongerDefinition(existing, term),
      !.source_columns = MergedArray(Some(existing.source_columns), Some(term.source_columns)),
      !.data_types = Some(MergedArray(existing.data_types, term.data_types)),
      !.sample_values = Some(MergedArray(existing.sample_values, term.sample_values)),
      !.synonyms = Some(MergedArray(existing.synonyms, term.synonyms)),
      !.category = OrElse(existing.category, term.category),
      !.confidence = Some(MergedConfidence(existing, term)),
      !.source_file_id = Coalesce(existing.source_file_id, term.source_file_id) ]

\* The Map `seen` after the loop over terms[1..n]: its entries in insertion
\* order, each with its key.
RECURSIVE Seen(_, _)
Seen(terms, n) ==
  IF n = 0 THEN << >>
  ELSE LET before == Seen(terms, n - 1)
           key == NormalizedTerm(terms[n])
           at == {i \in 1..Len(before) : before[i].key = key}
       IN IF at = {}
          THEN Append(before, [key |-> key, value |-> FirstSeen(terms[n])])
          ELSE [i \in 1..Len(before) |->
                  IF i \in at THEN [key |-> key, value |-> Merged(before[i].value, terms[n])]
                  ELSE before[i]]

SortedInsert_TiesFirst(sorted, x) ==
  LET ahead == {i \in 1..Len(sorted) : OrZero(sorted[i].confidence) > OrZero(x.confidence)}
  IN SubSeq(sorted, 1, Cardinality(ahead)) \o <<x>>
       \o SubSeq(sorted, Cardinality(ahead) + 1, Len(sorted))
\* One step of the stable sort by `(b.confidence ?? 0) - (a.confidence ?? 0)`:
\* x goes behind every element that does not sort after it.
SortedInsert(sorted, x) ==
  LET ahead == {i \in 1..Len(sorted) : OrZero(sorted[i].confidence) >= OrZero(x.confidence)}
  IN SubSeq(sorted, 1, Cardinality(ahead)) \o <<x>>
       \o SubSeq(sorted, Cardinality(ahead) + 1, Len(sorted))

RECURSIVE Sorted(_, _)
Sorted(values, n) ==
  IF n = 0 THEN << >> ELSE SortedInsert(Sorted(values, n - 1), values[n])

deduplicateTerms(terms) ==
  LET seen == Seen(terms, Len(terms))
      values == [i \in 1..Len(seen) |-> seen[i].value]
  IN Sorted(values, Len(values))

TermLists == UNION {[1..n -> TermPool] : n \in 0..MaxTerms}

InitTerms ==
  /\ PipelineAtRest
  /\ UsersAtRest
  /\ ServicesAtRest
  /\ input \in {Some([terms |-> l]) : l \in TermLists}
  /\ output = None

\* deduplicateTerms is called on the list in some order of its terms, and
\* then on what it returned.
DeduplicateCall ==
  /\ input # None /\ output = None
  /\ \E order \in Permutations(1..Len(input[1].terms)) :
       LET terms == [i \in 1..Len(order) |-> input[1].terms[order[i]]]
           result == deduplicateTerms(terms)
       IN output' = Some([fn |-> "deduplicateTerms", terms |-> terms, result |-> result,
                          again |-> deduplicateTerms(result)])
  /\ UNCHANGED <<input, pipelineVars, userVars, serviceVars>>

NextTerms == DeduplicateCall

SpecTerms == InitTerms /\ [][NextTerms]_vars

\* ============================================================= truncateText
\* A text is its length and the 0-based indices of its "." characters;
\* truncateText looks at nothing else.
Text(length, dots) == [length |-> length, dots |-> {d \in dots : d < length}]

\* text.slice(0, end)
slice(text, end) == Text(IF text.length < end THEN text.length ELSE end, text.dots)

\* text.lastIndexOf(".")
lastIndexOf(text) == IF text.dots = {} THEN 0 - 1 ELSE SetMax(text.dots)

\* truncated + "..."
WithEllipsis(text) ==
  [length |-> text.length + 3,
   dots |-> text.dots \cup {text.length, text.length + 1, text.length + 2}]

\* `lastSentence > maxLength * 0.8`
truncateText(text, maxLength) ==
  IF text.length <= maxLength THEN text
  ELSE LET truncated == slice(text, maxLength)
           lastSentence == lastIndexOf(truncated)
       IN IF 10 * lastSentence > 8 * maxLength
          THEN slice(truncated, lastSentence + 1)
          ELSE WithEllipsis(truncated)

\* The text of the file: what pdfParse or buffer.toString("utf8") gives.
TextLengths ==
  {0, 1, MAX_TEXT_LENGTH - 1, MAX_TEXT_LENGTH, MAX_TEXT_LENGTH + 1, MAX_TEXT_LENGTH + 3,
   2 * MAX_TEXT_LENGTH}
DotIndices ==
  {0, 79999, 80000, 80001, MAX_TEXT_LENGTH - 1, MAX_TEXT_LENGTH}
FileTexts == {Text(n, dots) : n \in TextLengths, dots \in SUBSET DotIndices}

InitText ==
  /\ PipelineAtRest
  /\ UsersAtRest
  /\ ServicesAtRest
  /\ input \in {Some([text |-> t]) : t \in FileTexts}
  /\ output = None

\* readUnstructured on a file whose text is read: it returns
\* truncateText(text, MAX_TEXT_LENGTH) on the PDF path and on the other.
ReadUnstructuredCall ==
  /\ input # None /\ output = None
  /\ output' = Some([fn |-> "readUnstructured",
                     text |-> truncateText(input[1].text, MAX_TEXT_LENGTH)])
  /\ UNCHANGED <<input, pipelineVars, userVars, serviceVars>>

NextText == ReadUnstructuredCall

SpecText == InitText /\ [][NextText]_vars

\* ================================== extractFromFile in the two extraction modes
\* The same file and the same service outcomes, attempt by attempt, given to
\* extractFromFile once in each mode: runs[1] in the first, then runs[2] in
\* the second.
ExtractionModes == <<"basic", "comprehensive">>

ModeMetas ==
  { [ext |-> ".csv", mime |-> "text/csv",        size |-> 2048],
    [ext |-> ".csv", mime |-> "text/csv",        size |-> MAX_FILE_SIZE + 1],
    [ext |-> ".pdf", mime |-> "application/pdf", size |-> 2048],
    [ext |-> ".txt", mime |-> "text/plain",      size |-> 2048] }

\* How one attempt's race ends: generateContent rejects, the timer fires
\* first, or a text is answered.
ServiceOutcomes ==
  {"reject", "timeout", "{\"terms\":[{\"term\":\"a\"}]}", "{\"terms\":7}", "{\"terms\":["}

ModeRunParseOutcomes ==
  RunParseOutcomes \cup {Parsed(Repeat(MAX_ROWS_TO_ANALYZE + 1, 1, <<"1">>, <<"2">>))}

ModeInputs ==
  [meta : ModeMetas, parsed : ModeRunParseOutcomes, pdf : PdfOutcomes,
   outcomes : [1..MAX_RETRIES -> ServiceOutcomes]]

InitModes ==
  /\ uploaded_files = << >> /\ data_glossary = {} /\ processingQueue = {}
  /\ glossaryExtractor = TRUE /\ apiKeySet = TRUE /\ skipped = 0 /\ req = NoRequest
  /\ runs = [i \in 1..2 |-> [NewRun(1) EXCEPT !.pc = "processFile"]]
  /\ input \in {Some(x) : x \in ModeInputs}
  /\ output = None
  /\ UsersAtRest
  /\ ServicesAtRest

\* extractFromFile has returned or thrown: the run goes on to a database write.
Extracted(run) == run.pc \in {"saveTerms", "statusProcessed", "statusFailed"}

\* The turn of the run in mode ExtractionModes[i].
ModeTurn(i) == i = 1 \/ Extracted(runs[1])

ModeUnchanged ==
  UNCHANGED <<uploaded_files, data_glossary, processingQueue, glossaryExtractor,
              envVars, skipped, req>>

\* extractFromFile is called in the mode and processFile returns.
ModeExtractCall(i) ==
  /\ ModeTurn(i) /\ runs[i].pc = "processFile"
  /\ SetRun(i, extractFromFile(runs[i], input[1].meta, input[1].parsed, input[1].pdf,
                               ExtractionModes[i]))
  /\ ModeUnchanged

\* The race of the current attempt ends as the outcomes say.
ModeAttemptSettled(i) ==
  /\ ModeTurn(i) /\ runs[i].pc = "awaiting"
  /\ LET a == runs[i].attempt
         outcome == input[1].outcomes[a]
         answered == [runs[i] EXCEPT !.inflight = @ \ {a}]
     IN SetRun(i, IF outcome = "timeout" THEN AttemptFailed(runs[i], TimeoutError)
                  ELSE IF outcome = "reject" THEN AttemptFailed(answered, FetchError)
                  ELSE IF JSONparse(outcome).ok
                       THEN AfterExtract(answered, a, JSONparse(outcome).value)
                  ELSE AttemptFailed(answered, SyntaxError))
  /\ ModeUnchanged

\* The backoff timer fires: the loop's next pass.
ModeBackoffElapsed(i) ==
  /\ ModeTurn(i) /\ runs[i].pc = "backoff"
  /\ SetRun(i, NextPass(runs[i]))
  /\ ModeUnchanged

NextModes ==
  \E i \in 1..2 : ModeExtractCall(i) \/ ModeAttemptSettled(i) \/ ModeBackoffElapsed(i)

SpecModes == InitModes /\ [][NextModes]_vars

\* ================================================================== db.ts
\* connected: the module's flag. connects: the calls of client.connect()
\* since closeDb was last called. calls: where each call of db() or query()
\* is suspended. closes: the calls of closeDb().
NoDatabase ==
  [connected |-> FALSE, connects |-> 0, calls |-> << >>, closing |-> FALSE, closes |-> 0]

InitDb ==
  /\ PipelineAtRest
  /\ FileProcessorAtRest
  /\ UsersAtRest
  /\ chat = None
  /\ database = NoDatabase

DbUnchanged == UNCHANGED <<pipelineVars, fileProcessorVars, userVars, chat>>

\* query() or db() is called: `if (!connected)` and, in the branch,
\* client.connect() up to its await.
DbCall ==
  /\ Len(database.calls) < MaxDbCalls
  /\ database' =
       IF ~database.connected
       THEN [database EXCEPT !.connects = @ + 1, !.calls = Append(@, "connecting")]
       ELSE [database EXCEPT !.calls = Append(@, "querying")]
  /\ DbUnchanged

\* client.connect() of call c settles: `connected = true`, or the throw.
ConnectSettled(c) ==
  /\ c \in DOMAIN database.calls /\ database.calls[c] = "connecting"
  /\ \E ok \in BOOLEAN :
       database' = IF ok THEN [database EXCEPT !.connected = TRUE, !.calls[c] = "querying"]
                   ELSE [database EXCEPT !.calls[c] = "threw"]
  /\ DbUnchanged

\* dbClient.query of call c settles, or db() hands the client to its caller.
QuerySettled(c) ==
  /\ c \in DOMAIN database.calls /\ database.calls[c] = "querying"
  /\ \E ok \in BOOLEAN :
       database' = [database EXCEPT !.calls[c] = IF ok THEN "returned" ELSE "threw"]
  /\ DbUnchanged

\* closeDb() is called: `if (connected)` and client.end() up to its await.
CloseDbCall ==
  /\ database.closes < MaxCloses /\ ~database.closing
  /\ database' = [database EXCEPT !.closes = @ + 1, !.connects = 0,
                                  !.closing = database.connected]
  /\ DbUnchanged

\* client.end() settles: `connected = false`.
CloseSettled ==
  /\ database.closing
  /\ database' = [database EXCEPT !.closing = FALSE, !.connected = FALSE]
  /\ DbUnchanged

NextDb ==
  \/ DbCall \/ CloseDbCall \/ CloseSettled
  \/ \E c \in 1..MaxDbCalls : ConnectSettled(c) \/ QuerySettled(c)

SpecDb == InitDb /\ [][NextDb]_vars

\* ======================================================== routes/chatbot.ts
\* sessions: the rows of chat_sessions. owners: the user_id each session id
\* was created with, the deleted ones included. messages: the rows of
\* chat_messages. request: the request of more than one query that is in
\* flight. step: the request the latest step belongs to. resp: the response
\* that step has sent, with the rows in its body.
NoChat ==
  [sessions |-> {}, owners |-> << >>, messages |-> {}, request |-> None,
   step |-> None, resp |-> None]

InitChat ==
  /\ PipelineAtRest
  /\ FileProcessorAtRest
  /\ UsersAtRest
  /\ database = None
  /\ chat = NoChat

ChatUnchanged == UNCHANGED <<pipelineVars, fileProcessorVars, userVars, database>>

SessionIds == 1..MaxSessions
Titles == {"t"}

SessionOf_AnyUser(sessions, sessionId, userId) == {row \in sessions : row.id = sessionId}
\* `... FROM chat_sessions WHERE id = $1 AND user_id = $2`
SessionOf(sessions, sessionId, userId) ==
  {row \in sessions : row.id = sessionId /\ row.user_id = userId}

\* `... FROM chat_messages WHERE session_id = $1`
MessagesOf(messages, sessionId) == {m \in messages : m.session_id = sessionId}

\* The row INSERT INTO chat_messages adds.
MessageRow(messages, sessionId, userId, role) ==
  [session_id |-> sessionId, user_id |-> userId, role |-> role,
   n |-> Cardinality(MessagesOf(messages, sessionId)) + 1]

Step(route, userId, sessionId, valid, ok) ==
  Some([route |-> route, uid |-> userId, sid |-> sessionId, valid |-> valid, ok |-> ok])
Sent(code, rows) == Some([code |-> code, rows |-> rows])

\* The step of the request in flight: it goes on to pc, or ends with a response.
Continue(pc, ok) ==
  [chat EXCEPT !.request = Some([chat.request[1] EXCEPT !.pc = pc]),
               !.step = Step(chat.request[1].route, chat.request[1].uid, chat.request[1].sid,
                             TRUE, ok),
               !.resp = None]
Respond(code, rows, ok) ==
  [chat EXCEPT !.request = None,
               !.step = Step(chat.request[1].route, chat.request[1].uid, chat.request[1].sid,
                             TRUE, ok),
               !.resp = Sent(code, rows)]
InFlight(route, pc) ==
  chat.request # None /\ chat.request[1].route = route /\ chat.request[1].pc = pc

\* POST /sessions
CreateSession(userId) ==
  /\ Len(chat.owners) < MaxSessions
  /\ \E ok \in BOOLEAN :
       LET row == [id |-> Len(chat.owners) + 1, user_id |-> userId, title |-> "New Chat"]
       IN chat' = IF ok
                  THEN [chat EXCEPT !.sessions = @ \cup {row}, !.owners = Append(@, userId),
                                    !.step = Step("create", userId, row.id, TRUE, ok),
                                    !.resp = Sent(200, {row})]
                  ELSE [chat EXCEPT !.step = Step("create", userId, row.id, TRUE, ok),
                                    !.resp = Sent(500, {})]
  /\ ChatUnchanged

\* GET /sessions
ListSessions(userId) ==
  /\ \E ok \in BOOLEAN :
       chat' = [chat EXCEPT
                  !.step = Step("list", userId, 0, TRUE, ok),
                  !.resp = IF ok THEN Sent(200, {row \in chat.sessions : row.user_id = userId})
                           ELSE Sent(500, {})]
  /\ ChatUnchanged

\* GET /sessions/:sessionId/messages up to its second query.
GetMessages(userId, sessionId) ==
  /\ chat.request = None
  /\ \E ok \in BOOLEAN :
       LET step == Step("get", userId, sessionId, TRUE, ok)
       IN chat' =
            IF ~ok THEN [chat EXCEPT !.step = step, !.resp = Sent(500, {})]
            ELSE IF SessionOf(chat.sessions, sessionId, userId) = {}
            THEN [chat EXCEPT !.step = step, !.resp = Sent(404, {})]
            ELSE [chat EXCEPT !.step = step, !.resp = None,
                              !.request = Some([route |-> "get", uid |-> userId,
                                                sid |-> sessionId, pc |-> "reading",
                                                first |-> FALSE, saved |-> {}])]
  /\ ChatUnchanged

\* The SELECT of the messages returns.
MessagesRead ==
  /\ InFlight("get", "reading")
  /\ \E ok \in BOOLEAN :
       chat' = IF ok THEN Respond(200, MessagesOf(chat.messages, chat.request[1].sid), ok)
               ELSE Respond(500, {}, ok)
  /\ ChatUnchanged

\* POST /sessions/:sessionId/messages up to its second query.
PostMessage(userId, sessionId) ==
  /\ chat.request = None
  /\ Cardinality(chat.messages) + 2 <= MaxChatMessages
  /\ \E valid \in BOOLEAN, ok \in BOOLEAN :
       LET step == Step("post", userId, sessionId, valid, ok)
       IN chat' =
            IF ~valid THEN [chat EXCEPT !.step = step, !.resp = Sent(400, {})]
            ELSE IF ~ok THEN [chat EXCEPT !.step = step, !.resp = Sent(500, {})]
            ELSE IF SessionOf(chat.sessions, sessionId, userId) = {}
            THEN [chat EXCEPT !.step = step, !.resp = Sent(404, {})]
            ELSE [chat EXCEPT !.step = step, !.resp = None,
                              !.request = Some([route |-> "post", uid |-> userId,
                                                sid |-> sessionId, pc |-> "counting",
                                                first |-> FALSE, saved |-> {}])]
  /\ ChatUnchanged

\* SELECT COUNT(*) returns: isFirstMessage.
PostCounted ==
  /\ InFlight("post", "counting")
  /\ \E ok \in BOOLEAN :
       chat' = IF ok
               THEN [Continue("saving", ok) EXCEPT
                       !.request[1].first = MessagesOf(chat.messages, chat.request[1].sid) = {}]
               ELSE Respond(500, {}, ok)
  /\ ChatUnchanged

\* An INSERT INTO chat_messages returns: the row, which the response will
\* carry, or the error of the database, which the foreign key raises when the
\* session is gone.
SaveMessage(role, pc) ==
  \E ok \in BOOLEAN :
    LET r == chat.request[1]
        row == MessageRow(chat.messages, r.sid, r.uid, role)
    IN chat' = IF ok /\ \E x \in chat.sessions : x.id = r.sid
               THEN [Continue(pc, ok) EXCEPT !.messages = @ \cup {row},
                                             !.request[1].saved = @ \cup {row}]
               ELSE Respond(500, {}, ok)

PostUserSaved ==
  /\ InFlight("post", "saving")
  /\ SaveMessage("user", "generating")
  /\ ChatUnchanged

\* The history and the compliance context are read and generateContent answers.
PostGenerated ==
  /\ InFlight("post", "generating")
  /\ \E ok \in BOOLEAN :
       chat' = IF ok THEN Continue("answering", ok) ELSE Respond(500, {}, ok)
  /\ ChatUnchanged

PostAssistantSaved ==
  /\ InFlight("post", "answering")
  /\ SaveMessage("assistant", "touching")
  /\ ChatUnchanged

\* `UPDATE chat_sessions SET updated_at = NOW() WHERE id = $1` returns; the
\* response follows unless the title is to be generated.
PostTouched ==
  /\ InFlight("post", "touching")
  /\ \E ok \in BOOLEAN :
       chat' = IF ~ok THEN Respond(500, {}, ok)
               ELSE IF chat.request[1].first THEN Continue("titling", ok)
               ELSE Respond(200, chat.request[1].saved, ok)
  /\ ChatUnchanged

\* generateChatTitle and `UPDATE chat_sessions SET title = $1 WHERE id = $2`
\* return; an error is logged.
PostTitled ==
  /\ InFlight("post", "titling")
  /\ \E ok \in BOOLEAN :
       LET r == chat.request[1]
           titled == {IF ok /\ x.id = r.sid THEN [x EXCEPT !.title = "generated"] ELSE x :
                        x \in chat.sessions}
       IN chat' = [Respond(200, r.saved, ok) EXCEPT
                     !.sessions = titled]
  /\ ChatUnchanged

\* DELETE /sessions/:sessionId; the messages go with the session (ON DELETE
\* CASCADE).
DeleteSession(userId, sessionId) ==
  /\ \E ok \in BOOLEAN :
       LET step == Step("delete", userId, sessionId, TRUE, ok)
           deleted == SessionOf(chat.sessions, sessionId, userId)
       IN chat' =
            IF ~ok THEN [chat EXCEPT !.step = step, !.resp = Sent(500, {})]
            ELSE IF deleted = {} THEN [chat EXCEPT !.step = step, !.resp = Sent(404, {})]
            ELSE [chat EXCEPT !.step = step, !.resp = Sent(200, {}),
                              !.sessions = @ \ deleted,
                              !.messages = {m \in @ : \A x \in deleted : m.session_id # x.id}]
  /\ ChatUnchanged

\* PATCH /sessions/:sessionId
RenameSession(userId, sessionId) ==
  /\ \E title \in {None} \cup {Some(t) : t \in Titles}, ok \in BOOLEAN :
       LET step == Step("rename", userId, sessionId, title # None, ok)
           updated == SessionOf(chat.sessions, sessionId, userId)
       IN chat' =
            IF title = None THEN [chat EXCEPT !.step = step, !.resp = Sent(400, {})]
            ELSE IF ~ok THEN [chat EXCEPT !.step = step, !.resp = Sent(500, {})]
            ELSE IF updated = {} THEN [chat EXCEPT !.step = step, !.resp = Sent(404, {})]
            ELSE [chat EXCEPT
                    !.step = step,
                    !.resp = Sent(200, {[x EXCEPT !.title = title[1]] : x \in updated}),
                    !.sessions = (@ \ updated) \cup {[x EXCEPT !.title = title[1]] : x \in updated}]
  /\ ChatUnchanged

NextChat ==
  \/ PostCounted \/ PostUserSaved \/ PostGenerated \/ PostAssistantSaved
  \/ PostTouched \/ PostTitled \/ MessagesRead
  \/ \E userId \in Uids :
       \/ CreateSession(userId) \/ ListSessions(userId)
       \/ \E sessionId \in SessionIds :
            \/ GetMessages(userId, sessionId) \/ PostMessage(userId, sessionId)
            \/ DeleteSession(userId, sessionId) \/ RenameSession(userId, sessionId)

SpecChat == InitChat /\ [][NextChat]_vars

\* ================================================================ properties

\* C1: at most one run per file id is active at any time, and a trigger
\* for a file id already in the in-flight set returns at once: it starts no
\* run and writes nothing, it only counts as skipped.
C1_OneActiveRunPerFile ==
  [][ /\ \A f \in DOMAIN uploaded_files' :
           Cardinality({i \in DOMAIN runs' : runs'[i].file = f /\ runs'[i].pc # "done"}) <= 1
      /\ skipped' # skipped =>
           UNCHANGED <<uploaded_files, data_glossary, processingQueue,
                       glossaryExtractor, runs, req>> ]_vars

C1_Witness ==
  /\ skipped > 0
  /\ \E f \in processingQueue : Cardinality(Active(f)) = 1

\* C2: a file id is in the in-flight set exactly while a run of it is
\* active: every run that has ended, however it ended, has removed it.
C2_QueueClearedOnEveryExit ==
  /\ processingQueue \subseteq DOMAIN uploaded_files
  /\ \A f \in DOMAIN uploaded_files : f \in processingQueue <=> Active(f) # {}

\* A run ended by the throw out of its catch block, and a later trigger of
\* the same file started a new run.
C2_Witness ==
  \E i, j \in DOMAIN runs :
    /\ i < j /\ runs[i].file = runs[j].file
    /\ runs[i].pc = "done" /\ runs[i].outcome = "rejected"
    /\ runs[j].pc # "done" /\ runs[j].file \in processingQueue

\* C3: a run that ends without having completed successfully leaves the
\* stored status 'failed' with the message of the error it caught.
C3_FailedStatusRecorded ==
  [][ \A i \in DOMAIN runs :
        (runs[i].pc # "done" /\ runs'[i].pc = "done" /\ runs'[i].outcome # "processed")
          => /\ uploaded_files'[runs[i].file].processing_status = "failed"
             /\ uploaded_files'[runs[i].file].error_message = runs[i].err ]_vars

\* C4: the steps a run has completed are a prefix of RunOrder and only grow
\* by appending; a failed run completes no further step; the status
\* 'processed' is written only by a run that has not failed and has
\* completed every step up to rule persistence, its terms being stored.
C4_StepsInOrder ==
  [][ \A i \in DOMAIN runs' :
        LET r == runs'[i]
        IN /\ IsPrefix(r.steps, RunOrder)
           /\ i \in DOMAIN runs =>
                /\ r.pc = "done" \/ IsPrefix(runs[i].steps, r.steps)
                /\ runs[i].failed => r.pc = "done" \/ (r.failed /\ r.steps = runs[i].steps)
                /\ (r.outcome = "processed" /\ runs[i].outcome # "processed") =>
                     /\ ~runs[i].failed
                     /\ runs[i].steps = SubSeq(RunOrder, 1, Len(RunOrder) - 1)
                     /\ runs[i].terms > 0 => runs[i].file \in data_glossary
                     /\ uploaded_files'[runs[i].file].processing_status = "processed" ]_vars

C4_Witness ==
  \E i \in DOMAIN runs :
    /\ runs[i].outcome = "processed"
    /\ runs[i].file \in data_glossary
    /\ uploaded_files[runs[i].file].processing_status = "processed"

\* C5: the answer to POST /upload for a stored file leaves while the run is
\* in flight, reports the status of the inserted row, 'pending', and is not
\* changed by anything the run does afterwards.
C5_ImmediateAcknowledgment ==
  [][ /\ (req'.resp # None /\ req'.resp[1].code = 200) =>
           /\ req'.resp[1].processingStatus = "pending"
           /\ req'.resp[1].inFlight
      /\ req.resp # None => req'.resp = req.resp ]_vars

\* The run has failed and the answer given still says 'pending'.
C5_Witness ==
  /\ req.resp # None /\ req.resp[1].code = 200
  /\ req.resp[1].processingStatus = "pending"
  /\ uploaded_files[req.fileRecord[1].id].processing_status = "failed"

\* C6: a run calls the client at most once (once, when it gets as far as the
\* extraction), the client makes at most MAX_RETRIES service calls, and none
\* after a response was parsed and returned.
C6_BoundedServiceCalls ==
  [][ \A i \in DOMAIN runs :
        /\ runs'[i].attempt <= MAX_RETRIES
        /\ runs'[i].clientCalls <= 1
        /\ runs'[i].attempt > 0 => runs'[i].clientCalls = 1
        /\ runs[i].result # None => runs'[i].attempt <= runs[i].attempt ]_vars

\* The third call answered: the client returned after MAX_RETRIES calls.
C6_Witness ==
  \E i \in DOMAIN runs :
    runs[i].attempt = MAX_RETRIES /\ runs[i].result # None

\* C7: the k-th delay waited follows failed attempt k and lasts
\* RETRY_DELAY * 2^(k-1); there is a delay after every failed attempt but
\* the last one, whatever it failed with.
C7_ExponentialBackoff ==
  \A i \in DOMAIN runs :
    LET r == runs[i]
    IN /\ \A k \in 1..Len(r.waits) :
            r.waits[k] = [after |-> k, delay |-> RETRY_DELAY * 2^(k - 1)]
       /\ Len(r.waits) <= MAX_RETRIES - 1
       /\ Len(r.failures) < MAX_RETRIES => Len(r.waits) = Len(r.failures)
       /\ r.clientThrew # None => Len(r.waits) = MAX_RETRIES - 1

\* Three attempts failed in the three ways, with two delays in between.
C7_Witness ==
  \E i \in DOMAIN runs :
    /\ runs[i].clientThrew # None
    /\ runs[i].failures = <<TimeoutError, FetchError, SyntaxError>>
    /\ runs[i].waits = << [after |-> 1, delay |-> 1000], [after |-> 2, delay |-> 2000] >>

\* C8: when the client throws, all MAX_RETRIES attempts have failed, nothing
\* was returned, and the one error the run catches names the attempt count
\* and carries the message of the last attempt's failure.
C8_AggregatedError ==
  \A i \in DOMAIN runs :
    LET r == runs[i]
    IN r.clientThrew # None =>
         /\ Len(r.failures) = MAX_RETRIES
         /\ r.clientThrew[1].message =
              <<"Gemini API failed after ", "3", " attempts: ">>
                \o r.failures[Len(r.failures)].message
         /\ r.result = None
         /\ r.failed /\ r.err = Some(r.clientThrew[1].message)

\* The last attempt failed otherwise than the first one.
C8_Witness ==
  \E i \in DOMAIN runs :
    /\ runs[i].clientThrew # None
    /\ runs[i].failures[1] # runs[i].failures[MAX_RETRIES]

\* C9: a timeout is one failed attempt: with attempts remaining the client
\* backs off and calls again; and what the client returns is the answer to
\* the attempt it was waiting on, never the answer to an earlier call.
C9_TimeoutIsAFailedAttempt ==
  \A i \in DOMAIN runs :
    LET r == runs[i]
        n == Len(r.failures)
    IN /\ r.result # None =>
            /\ r.result[1].attempt = r.attempt
            /\ n = r.attempt - 1
       /\ (n > 0 /\ n < MAX_RETRIES /\ r.failures[n] = TimeoutError /\ r.result = None) =>
            /\ ~r.failed
            /\ \/ r.pc = "backoff" /\ r.attempt = n
               \/ r.pc = "awaiting" /\ r.attempt = n + 1
       /\ r.inflight \subseteq 1..r.attempt

\* The first attempt timed out, its call answered late, and the client
\* is waiting on the second attempt.
C9_Witness ==
  \E i \in DOMAIN runs :
    /\ runs[i].pc = "awaiting" /\ runs[i].attempt = 2
    /\ runs[i].failures = <<TimeoutError>>
    /\ runs[i].inflight = {2}

\* C10: whatever the client returns has a `terms` field holding an array.
C10_ReturnsTermsArray ==
  \A i \in DOMAIN runs :
    runs[i].result # None => HasTermsArray(runs[i].result[1].value)

\* C11: processFile throws for a file whose declared size exceeds
\* MAX_FILE_SIZE before it calls any reader, and a run of such a file builds
\* no prompt and never calls the extraction service.
C11_OversizedFileRejected ==
  \A i \in DOMAIN runs :
    LET r == runs[i]
    IN Meta(r.file).size > MAX_FILE_SIZE =>
         /\ r.invoked = {} /\ r.preview = 0 /\ ~r.text
         /\ r.prompt = None /\ r.clientCalls = 0 /\ r.attempt = 0 /\ r.inflight = {}
         /\ r.pc \in {"statusProcessing", "download", "metadata", "processFile",
                      "statusFailed", "done"}
         /\ (r.failed /\ Len(r.steps) = 3) =>
              r.err = Some(<<"File too large: ", ToString(Meta(r.file).size)>>)

\* The run of an oversized file has been through processFile.
C11_Witness ==
  \E i \in DOMAIN runs :
    /\ Meta(runs[i].file).size > MAX_FILE_SIZE
    /\ runs[i].pc = "statusFailed"
    /\ runs[i].steps = <<"status_processing", "download", "metadata">>
    /\ runs[i].err = Some(<<"File too large: ", ToString(MAX_FILE_SIZE + 1)>>)

\* C12: when a file classified as tabular is not too large and row parsing
\* throws, processFile calls the Unstructured Reader and fails only if the
\* reader fails; otherwise it returns no column profile, the reader's text,
\* and the fallback warning.
C12_TabularFallback ==
  (output # None /\ output[1].fn = "processFile") =>
    LET in == input[1]
        res == output[1].result
        pdfThrows == (in.meta.ext = ".pdf" \/ in.meta.mime = "application/pdf") /\ in.pdf = "throws"
        pdfEmpty == (in.meta.ext = ".pdf" \/ in.meta.mime = "application/pdf") /\ in.pdf = "empty"
    IN (in.meta.size <= MAX_FILE_SIZE /\ looksTabular(in.meta.ext, in.meta.mime) /\ in.parsed.threw) =>
         /\ "readUnstructured" \in res.invoked
         /\ res.threw <=> pdfThrows
         /\ ~res.threw =>
              /\ res.columnPreview = << >>
              /\ res.text <=> ~pdfEmpty
              /\ \E w \in 1..Len(res.warnings) :
                   res.warnings[w][Len(res.warnings[w])] = ". Falling back to text processing."

\* Row parsing of a CSV file threw and processFile returned the text.
C12_Witness ==
  /\ output # None /\ output[1].fn = "processFile"
  /\ input[1].meta.ext = ".csv" /\ input[1].parsed.threw
  /\ ~output[1].result.threw /\ output[1].result.text
  /\ output[1].result.columnPreview = << >>
  /\ output[1].result.warnings # << >>

C14_NoTextIsFatal ==
  \A i \in DOMAIN runs :
    LET r == runs[i]
        meta == Meta(r.file)
    IN ("readUnstructured" \in r.invoked /\ IsPdf(meta.ext, meta.mime) /\ ~r.text) =>
         /\ r.failed
         /\ r.prompt = None /\ r.attempt = 0 /\ r.clientCalls = 0

\* C15: a user's row is inserted with the role 'dataTeam' unless opts.role
\* is given; the role of an existing user changes only in a call of
\* upsertUser that passes opts.role, and then to that role; a login, which
\* passes none, never changes it.
C15_RoleKeptAcrossLogins ==
  [][ \A uid \in Uids :
        LET before == RowsOf(users, uid)
            after == RowsOf(users', uid)
            call == login'.last[1]
        IN /\ Cardinality(after) <= 1
           /\ before # {} => after # {}
           /\ users' # users => login'.upserts = login.upserts + 1
           /\ (before = {} /\ after # {}) =>
                /\ call.uid = uid
                /\ \A r \in after : r.role = COALESCE(call.role, Some("dataTeam"))
           /\ \A r \in before, q \in after :
                q.role # r.role => (call.uid = uid /\ call.role = q.role) ]_vars

\* What the latest call of detectDataType was given and returned.
Detected == output[1]
IsDetectCall == output # None /\ output[1].fn = "detectDataType"
\* What the latest call of processFile was given and returned.
Processed == output[1].result
IsProfileCall ==
  /\ output # None /\ output[1].fn = "processFile"
  /\ ~Processed.threw /\ "profileColumns" \in Processed.invoked
Cap(n, cap) == IF n < cap THEN n ELSE cap

\* C16: a non-empty sample in which no score reaches 60% of the sample size
\* capped at 50 is typed `string`, and an empty sample is typed `unknown`.
C16_StringBelowThreshold ==
  IsDetectCall =>
    /\ Detected.values = << >> => Detected.type = "unknown"
    /\ ( /\ Detected.values # << >>
         /\ \A k \in DOMAIN Detected.scores[1] :
              10 * Detected.scores[1][k] < 6 * Cap(Len(Detected.values), 50) )
       => Detected.type = "string"

\* 29 of the 50 sampled values are numerals: 58%, typed string.
C16_Witness ==
  /\ IsDetectCall
  /\ Len(Detected.values) > 50
  /\ Detected.scores[1]["number"] = 29
  /\ Detected.type = "string"

\* C17 as stated: a non-empty sample whose values all match the numeric
\* pattern is typed `number`, and every value that parses lies between the
\* min and the max of the statistics.
C17_NumericSampleIsNumber ==
  ( /\ IsDetectCall
    /\ Detected.values # << >>
    /\ \A i \in 1..Cap(Len(Detected.values), 50) : patterns_number(trim(Detected.values[i])) )
  => /\ Detected.type = "number"
     /\ Detected.statistics # None
     /\ \A i \in 1..Len(Detected.values) :
          Number(Detected.values[i]) # None =>
            /\ Detected.statistics[1].min <= Number(Detected.values[i])[1]
            /\ Number(Detected.values[i])[1] <= Detected.statistics[1].max

\* C17 amended: the same, for the samples whose values match the numeric
\* pattern and neither the phone nor the id pattern, which are tested first.
C17_NumericOnlySampleIsNumber ==
  ( /\ IsDetectCall
    /\ Detected.values # << >>
    /\ \A i \in 1..Cap(Len(Detected.values), 50) :
         LET t == trim(Detected.values[i])
         IN patterns_number(t) /\ ~patterns_phone(t) /\ ~patterns_id(t) )
  => /\ Detected.type = "number"
     /\ Detected.statistics # None
     /\ \A i \in 1..Len(Detected.values) :
          Number(Detected.values[i]) # None =>
            /\ Detected.statistics[1].min <= Number(Detected.values[i])[1]
            /\ Number(Detected.values[i])[1] <= Detected.statistics[1].max

\* The 50 sampled values are numerals and 50 more values are not: typed
\* number, with statistics.
C17_Witness ==
  /\ IsDetectCall
  /\ Len(Detected.values) = 100
  /\ \A i \in 1..50 : Detected.values[i] = <<"1", "0", "0">>
  /\ Detected.values[51] = <<"a", "b", "c">>
  /\ Detected.type = "number"
  /\ Detected.statistics # None
  /\ Detected.statistics[1].min = 100

\* C18: every sampled value adds one to the score of the first recognizer
\* it matches in the order email, url, phone, id, number, boolean, or to
\* `date` when it matches none of them, parses as a date and has more than 6
\* characters, and to nothing else; a value matching the phone and the
\* numeric pattern counts as phone; the scores sum to at most the sample size.
C18_FirstMatchScores ==
  IsDetectCall /\ Detected.scores # None =>
    LET order == <<"email", "url", "phone", "id", "number", "boolean">>
        n == Cap(Len(Detected.values), 50)
        Matches(i) ==
          LET t == trim(Detected.values[i])
          IN [email |-> patterns_email(t), url |-> patterns_url(t),
              phone |-> patterns_phone(t), id |-> patterns_id(t),
              number |-> patterns_number(t), boolean |-> patterns_boolean(t)]
        Hits(i) == {k \in 1..6 : Matches(i)[order[k]]}
        Scored(i) ==
          IF Hits(i) # {} THEN {order[SetMin(Hits(i))]}
          ELSE IF DateParses(trim(Detected.values[i])) /\ Len(trim(Detected.values[i])) > 6
               THEN {"date"}
          ELSE {}
        scores == Detected.scores[1]
    IN /\ \A k \in DOMAIN scores :
            scores[k] = Cardinality({i \in 1..n : k \in Scored(i)})
       /\ \A i \in 1..n : Cardinality(Scored(i)) <= 1
       /\ scores["phone"] >=
            Cardinality({i \in 1..n : Matches(i)["phone"] /\ Matches(i)["number"]})
       /\ scores["email"] + scores["url"] + scores["phone"] + scores["id"]
            + scores["number"] + scores["date"] + scores["boolean"] <= n

\* A sample with the value 1234567, which the phone, the id and the numeric
\* pattern all match, and a value that matches nothing.
C18_Witness ==
  /\ IsDetectCall
  /\ Detected.values = << <<"1", "2", "3", "4", "5", "6", "7">>, <<"a", "b", "c">> >>
  /\ Detected.scores[1]["phone"] = 1
  /\ Detected.scores[1]["id"] = 0
  /\ Detected.scores[1]["number"] = 0

\* C19: the statistics of a column typed `number` are the min, the max and
\* the average of the inspected values that parse as numbers, the others
\* being ignored (100, 250, abc: number, min 100, max 250, avg 175); a column
\* of any other type has no statistics.
C19_StatisticsOverParsedNumbers ==
  IsProfileCall =>
    LET rows == input[1].parsed.rows
        inspected == ValuesOf(SubSeq(rows, 1, Cap(Len(rows), MAX_ROWS_TO_ANALYZE)), "amount")
        parsing == {i \in 1..Len(inspected) : Number(inspected[i]) # None}
        numbers == {Number(inspected[i])[1] : i \in parsing}
    IN /\ \A c \in 1..Len(Processed.columnPreview) :
            LET p == Processed.columnPreview[c]
            IN IF p.detectedType = "number"
               THEN /\ p.statistics # None
                    /\ p.statistics[1].min \in numbers
                    /\ p.statistics[1].max \in numbers
                    /\ \A v \in numbers : p.statistics[1].min <= v /\ v <= p.statistics[1].max
                    /\ p.statistics[1].avg.count = Cardinality(parsing)
                    /\ p.statistics[1].avg.sum = SumOver(numbers, NumbersOf(inspected))
                    /\ p.statistics[1].avg.sum >= p.statistics[1].min * Cardinality(parsing)
                    /\ p.statistics[1].avg.sum <= p.statistics[1].max * Cardinality(parsing)
               ELSE p.statistics = None
       /\ rows \in ScenarioRowSets =>
            /\ Len(Processed.columnPreview) = 1
            /\ Processed.columnPreview[1].detectedType = "number"
            /\ Processed.columnPreview[1].statistics[1].min = 100
            /\ Processed.columnPreview[1].statistics[1].max = 250
            /\ Processed.columnPreview[1].statistics[1].avg.sum
                 = 175 * Processed.columnPreview[1].statistics[1].avg.count

\* The rows 100, 250, abc have been profiled.
C19_Witness ==
  /\ IsProfileCall
  /\ input[1].parsed.rows \in ScenarioRowSets
  /\ Processed.columnPreview[1].detectedType = "number"
  /\ Processed.columnPreview[1].statistics[1].avg = [sum |-> 350, count |-> 2]

\* C20: the profiles of a row set are those of its first MAX_ROWS_TO_ANALYZE
\* rows; with more rows than that the warnings name the rows analyzed and the
\* true total, with at most that many rows there is no such warning.
C20_OnlyFirstRowsAnalyzed ==
  IsProfileCall =>
    LET rows == input[1].parsed.rows
        first == SubSeq(rows, 1, Cap(Len(rows), 1000))
        large == {w \in 1..Len(Processed.warnings) :
                    Processed.warnings[w][1] = "Large dataset: analyzed first "}
    IN /\ Processed.columnPreview = profileColumns(first, SAMPLE_VALUES_COUNT)
       /\ \A c \in 1..Len(Processed.columnPreview) :
            /\ Processed.columnPreview[c].uniqueCount
                 = Cardinality({Stringified(first[i]["amount"]) : i \in 1..Len(first)}
                                 \ {v \in {Stringified(first[i]["amount"]) : i \in 1..Len(first)} :
                                      trim(v) = << >>})
            /\ Processed.columnPreview[c].nullCount <= Len(first)
       /\ IF Len(rows) > 1000
          THEN /\ Cardinality(large) = 1
               /\ \A w \in large :
                    Processed.warnings[w] = <<"Large dataset: analyzed first ", "1000",
                                              " rows of ", ToString(Len(rows))>>
          ELSE large = {}

\* 1500 rows, a second value from row 1001 on: one unique value and the
\* warning "1000 rows of 1500".
C20_Witness ==
  /\ IsProfileCall
  /\ Len(input[1].parsed.rows) = 1500
  /\ input[1].parsed.rows[1] # input[1].parsed.rows[1001]
  /\ Processed.columnPreview[1].uniqueCount = 1
  /\ Processed.warnings = << <<"Large dataset: analyzed first ", "1000", " rows of ", "1500">> >>

\* What the latest call of deduplicateTerms was given and returned.
Deduplicated == output[1]
IsDeduplicateCall == output # None /\ output[1].fn = "deduplicateTerms"
Elements(seq) == {seq[i] : i \in 1..Len(seq)}
\* The trimmed, lower-cased name of a term.
NameOf(t) == toLowerCase(trim(t.term))

\* C21: the list returned has exactly one entry for each distinct trimmed,
\* lower-cased name of the terms given, and its confidences do not increase.
C21_OneEntryPerName ==
  IsDeduplicateCall =>
    LET given == Deduplicated.terms
        result == Deduplicated.result
    IN /\ {NameOf(result[i]) : i \in 1..Len(result)} = {NameOf(given[i]) : i \in 1..Len(given)}
       /\ \A i, j \in 1..Len(result) : NameOf(result[i]) = NameOf(result[j]) => i = j
       /\ \A i, j \in 1..Len(result) :
            i < j => OrZero(result[i].confidence) >= OrZero(result[j].confidence)

\* Three spellings of one name and a second name gave two entries, the more
\* confident first.
C21_Witness ==
  /\ IsDeduplicateCall
  /\ Len(Deduplicated.terms) = 3
  /\ Cardinality({Deduplicated.terms[i].term : i \in 1..3}) = 3
  /\ Len(Deduplicated.result) = 2
  /\ OrZero(Deduplicated.result[1].confidence) > OrZero(Deduplicated.result[2].confidence)
  /\ NameOf(Deduplicated.terms[3]) = NameOf(Deduplicated.result[1])
  /\ NameOf(Deduplicated.terms[1]) = NameOf(Deduplicated.result[2])

\* C22: deduplicateTerms applied to what it returned returns the same list:
\* the same entries with the same fields in the same order.
C22_Idempotent ==
  IsDeduplicateCall => Deduplicated.again = Deduplicated.result

\* Terms were merged, two entries of equal confidence were returned, and the
\* second call returned them again.
C22_Witness ==
  /\ IsDeduplicateCall
  /\ Len(Deduplicated.result) = 2
  /\ Len(Deduplicated.terms) = 3
  /\ Deduplicated.result[1].confidence = Deduplicated.result[2].confidence
  /\ Deduplicated.again = Deduplicated.result

\* C23: whatever the order of the terms, the list returned has the same
\* normalized names and, for each name, the same confidence and the same
\* source_columns, data_types, sample_values and synonyms as sets.
C23_OrderIndependent ==
  IsDeduplicateCall =>
    LET other == deduplicateTerms(input[1].terms)
        result == Deduplicated.result
    IN /\ {NameOf(result[i]) : i \in 1..Len(result)} = {NameOf(other[i]) : i \in 1..Len(other)}
       /\ \A i \in 1..Len(result), j \in 1..Len(other) :
            NameOf(result[i]) = NameOf(other[j]) =>
              /\ result[i].confidence = other[j].confidence
              /\ Elements(result[i].source_columns) = Elements(other[j].source_columns)
              /\ Elements(OrEmpty(result[i].data_types)) = Elements(OrEmpty(other[j].data_types))
              /\ Elements(OrEmpty(result[i].sample_values)) = Elements(OrEmpty(other[j].sample_values))
              /\ Elements(OrEmpty(result[i].synonyms)) = Elements(OrEmpty(other[j].synonyms))

\* The terms were given in another order, the less confident spelling
\* last, and the merged entry differs in its name only.
C23_Witness ==
  /\ IsDeduplicateCall
  /\ Deduplicated.terms # input[1].terms
  /\ Len(Deduplicated.terms) >= 2
  /\ Len(Deduplicated.result) = 1
  /\ Deduplicated.result[1].term # deduplicateTerms(input[1].terms)[1].term
  /\ OrZero(Deduplicated.terms[Len(Deduplicated.terms)].confidence)
       < OrZero(Deduplicated.result[1].confidence)

\* C24: the entry returned for a name given several times has the trimmed
\* name of the first term with that name, the longest definition (the first
\* of that length), in each list field the values of all those terms without
\* duplicates, the first non-empty category and the greatest confidence;
\* "Customer ID" at 0.6 then " customer id " at 0.9 give one entry
\* "Customer ID" at 0.9.
C24_MergedRecord ==
  IsDeduplicateCall =>
    LET given == Deduplicated.terms
        result == Deduplicated.result
        Same(r) == {i \in 1..Len(given) : NameOf(given[i]) = NameOf(r)}
        NoRepeat(seq) == Cardinality(Elements(seq)) = Len(seq)
        All(r, field) == UNION {Elements(OrEmpty(given[i][field])) : i \in Same(r)}
        Filled(r) == {i \in Same(r) : given[i].category # None /\ given[i].category[1] # ""}
        Longest(r) == {i \in Same(r) :
                         \A k \in Same(r) : Len(given[i].definition) >= Len(given[k].definition)}
    IN /\ \A n \in 1..Len(result) :
            LET r == result[n]
            IN /\ r.term = trim(given[SetMin(Same(r))].term)
               /\ r.definition = given[SetMin(Longest(r))].definition
               /\ Filled(r) # {} => r.category = given[SetMin(Filled(r))].category
               /\ Cardinality(Same(r)) >= 2 =>
                    /\ r.confidence # None
                    /\ \A i \in Same(r) : r.confidence[1] >= OrZero(given[i].confidence)
                    /\ \E i \in Same(r) : r.confidence[1] = OrZero(given[i].confidence)
                    /\ NoRepeat(r.source_columns)
                    /\ Elements(r.source_columns)
                         = UNION {Elements(given[i].source_columns) : i \in Same(r)}
                    /\ \A field \in {"data_types", "sample_values", "synonyms"} :
                         /\ r[field] # None
                         /\ NoRepeat(r[field][1])
                         /\ Elements(r[field][1]) = All(r, field)
       /\ ( /\ Len(given) = 2
            /\ given[1].term = <<"C", "u", "s", "t", "o", "m", "e", "r", " ", "I", "D">> /\ given[1].confidence = Some(6)
            /\ given[2].term = <<" ", "c", "u", "s", "t", "o", "m", "e", "r", " ", "i", "d", " ">> /\ given[2].confidence = Some(9) )
          => /\ Len(result) = 1
             /\ result[1].term = <<"C", "u", "s", "t", "o", "m", "e", "r", " ", "I", "D">>
             /\ result[1].confidence = Some(9)

\* "Customer ID" at 0.6 and " customer id " at 0.9 were given and merged.
C24_Witness ==
  /\ IsDeduplicateCall
  /\ Len(Deduplicated.terms) = 2
  /\ Deduplicated.terms[1].term = <<"C", "u", "s", "t", "o", "m", "e", "r", " ", "I", "D">>
  /\ Deduplicated.terms[1].confidence = Some(6)
  /\ Deduplicated.terms[2].term = <<" ", "c", "u", "s", "t", "o", "m", "e", "r", " ", "i", "d", " ">>
  /\ Deduplicated.terms[2].confidence = Some(9)
  /\ Len(Deduplicated.result) = 1
  /\ Deduplicated.result[1].confidence = Some(9)

\* C25: the text readUnstructured returns has at most MAX_TEXT_LENGTH
\* characters, and a text of at most MAX_TEXT_LENGTH characters is returned
\* unchanged.
C25_TextWithinMaxLength ==
  output # None /\ output[1].fn = "readUnstructured" =>
    /\ output[1].text.length <= MAX_TEXT_LENGTH
    /\ input[1].text.length <= MAX_TEXT_LENGTH => output[1].text = input[1].text

\* C26: given the same file and the same service outcomes, extractFromFile
\* in mode basic and in mode comprehensive takes the same branch, makes the
\* same attempts and ends with the same column profiles, warnings and
\* status to write; the two runs differ in the mode of the prompt only.
C26_ModeChangesPromptOnly ==
  ( /\ input # None /\ "outcomes" \in DOMAIN input[1]
    /\ Len(runs) = 2 /\ Extracted(runs[1]) /\ Extracted(runs[2]) )
  => /\ [runs[1] EXCEPT !.prompt = None] = [runs[2] EXCEPT !.prompt = None]
     /\ runs[1].prompt = None <=> runs[2].prompt = None
     /\ runs[1].prompt # None =>
          /\ runs[1].prompt[1].branch = runs[2].prompt[1].branch
          /\ runs[1].prompt[1].mode = "basic"
          /\ runs[2].prompt[1].mode = "comprehensive"

\* A tabular file of more rows than are analyzed, a failed attempt and an
\* answered one: both runs went the same way in two attempts.
C26_Witness ==
  /\ input # None /\ "outcomes" \in DOMAIN input[1]
  /\ Len(runs) = 2
  /\ runs[1].pc = "saveTerms" /\ runs[2].pc = "saveTerms"
  /\ runs[1].attempt = 2 /\ runs[2].attempt = 2
  /\ runs[1].preview = 1 /\ runs[1].warnings # << >>
  /\ runs[1].prompt # None /\ runs[2].prompt # None
  /\ runs[1].prompt # runs[2].prompt

\* C27: the upload route triggers processing only in the step in which the
\* insert of the uploaded_files row succeeds, which the storage upload
\* precedes; a request without a file (400), of an unsupported media type
\* (415), whose storage upload failed (502) or whose insert failed (500)
\* starts no run, and the first three write no row.
C27_TriggerAfterUploadAndInsert ==
  /\ [](req.resp # None =>
          /\ req.resp[1].code \in {400, 415, 502, 500} => runs = << >> /\ skipped = 0
          /\ req.resp[1].code \in {400, 415, 502} => uploaded_files = << >>
          /\ req.resp[1].code = 400 <=> req.kind = None
          /\ req.resp[1].code = 415 <=> (req.kind # None /\ req.kind[1].mime \notin ACCEPTED_MIME))
  /\ []((req.kind # None /\ req.kind[1].mime \notin ACCEPTED_MIME) =>
          runs = << >> /\ uploaded_files = << >>)
  /\ [][ /\ (req.pc # "triggered" /\ req'.pc = "triggered") =>
              /\ req.pc = "inserting"
              /\ uploaded_files' = Append(uploaded_files, FileRow(req.kind[1]))
              /\ req'.fileRecord[1].id = Len(uploaded_files')
              /\ Len(runs') = Len(runs) + 1
              /\ runs'[Len(runs')].file = req'.fileRecord[1].id
         /\ req.pc \in {"new", "uploading", "signing"} =>
              runs' = << >> /\ uploaded_files' = << >>
         /\ req'.pc = "inserting" /\ req.pc # "inserting" => req.pc = "signing"
         /\ req'.pc = "signing" /\ req.pc # "signing" => req.pc = "uploading"
         /\ (req.pc = "inserting" /\ req'.pc = "done") =>
              /\ req'.resp[1].code = 500
              /\ UNCHANGED <<uploaded_files, runs, processingQueue>> ]_vars

\* An upload was stored, its row inserted and its run started; the request
\* is answered 200.
C27_Witness ==
  /\ req.pc = "done" /\ req.resp # None /\ req.resp[1].code = 200
  /\ Len(uploaded_files) = 1
  /\ Len(runs) >= 1 /\ runs[1].file = req.fileRecord[1].id

\* C28: when every storage and database call returns or fails and every
\* timer fires, every run that has started ends and its file id leaves
\* processingQueue; the client leaves its loop after at most MAX_RETRIES
\* attempts although the service may never answer.
C28_EveryRunEnds ==
  /\ \A i \in 1..MaxFairRuns :
       /\ (i \in DOMAIN runs /\ ~Done(runs[i])) ~> (i \in DOMAIN runs /\ Done(runs[i]))
       /\ (i \in DOMAIN runs /\ runs[i].pc = "awaiting")
            ~> (i \in DOMAIN runs /\ runs[i].pc \notin {"awaiting", "backoff"})
       /\ [](i \in DOMAIN runs => runs[i].attempt <= MAX_RETRIES)
  /\ (processingQueue # {}) ~> (processingQueue = {})

\* A run whose three attempts all ended by their timeout has ended, its
\* failure is stored and the queue is empty.
C28_Witness ==
  /\ processingQueue = {}
  /\ \E i \in DOMAIN runs :
       /\ Done(runs[i])
       /\ runs[i].outcome = "failed"
       /\ uploaded_files[runs[i].file].processing_status = "failed"
       /\ uploaded_files[runs[i].file].error_message
            = Some(CatchMessage(AggregatedError(Some(TimeoutError))))

\* C29: whatever the interleaving of the calls of db() and query(),
\* client.connect() is called at most once between two calls of closeDb().
C29_ConnectAtMostOnce ==
  database # None => database.connects <= 1


\* The request of the latest step names a session another user created, or
\* none that was ever created.
SessionRoutes == {"get", "post", "delete", "rename"}
Owns(owners, step) == step.sid \in DOMAIN owners /\ owners[step.sid] = step.uid
RowsChanged(before, after) == (before \ after) \cup (after \ before)

\* What every step of a request on a session keeps, whatever the status of the
\* refusal: a response of 200 goes to the owner only; a step of another user
\* leaves both tables as they were and sends no row; and every session or
\* message row a step inserts, changes, deletes or sends is of a session of
\* the user of the request.
OwnerOnly(refusals(_)) ==
  chat # None /\ chat' # None /\ chat' # chat /\ chat'.step # None =>
       LET step == chat'.step[1]
           resp == chat'.resp
           changed == RowsChanged(chat.sessions, chat'.sessions)
                        \cup RowsChanged(chat.messages, chat'.messages)
           sent == IF resp = None THEN {} ELSE resp[1].rows
       IN /\ \A row \in changed \cup sent : row.user_id = step.uid
          /\ step.route \in SessionRoutes /\ ~Owns(chat.owners, step) =>
               /\ changed = {} /\ sent = {}
               /\ resp # None /\ resp[1].code \in refusals(step)

JustNotFound(step) == {404}
NotFoundOrInvalid(step) ==
  IF ~step.valid THEN {400} ELSE IF ~step.ok THEN {500} ELSE {404}

\* C30 as stated: a request on a session of another user, or on none, gets 404
\* and no message or session row is read out, inserted, changed or deleted.
C30_OthersGet404 == [][OwnerOnly(JustNotFound)]_vars

\* C30: a request on a chat session succeeds only for the user whose id is the
\* session's user_id. A request of any other user, or on a session that does
\* not exist, gets 404, or 400 when its body lacks the message or the title
\* (the body is checked before the ownership), or 500 when the query fails;
\* in each case no message or session row is read out, inserted, changed or
\* deleted.
C30_OwnerOnly == [][OwnerOnly(NotFoundOrInvalid)]_vars

\* A user asked for the messages of a session of another user, which exists
\* and has messages, and got 404.
C30_Witness ==
  /\ chat # None /\ chat.step # None /\ chat.resp # None
  /\ chat.step[1].route = "get"
  /\ chat.resp[1].code = 404
  /\ ~Owns(chat.owners, chat.step[1])
  /\ \E x \in chat.sessions : x.id = chat.step[1].sid
  /\ MessagesOf(chat.messages, chat.step[1].sid) # {}

====
